------------------------------- MODULE Sessions -------------------------------
(***************************************************************************)
(* The two things a session can be about, over the same store and endpoint *)
(* patterns: the swap of SwapBroadcast or the transfer of TransferSession. *)
(* Only the one that was chosen takes steps.                               *)
(***************************************************************************)
EXTENDS SwapBroadcast

CONSTANTS Absent, TransferPost, Carries, Prepare, Talk, Delete, MaxCards, MaxLost

VARIABLES
    kind,
    tsession, tfresh, tcp, tlock, tpc, tmem, cards, accepted, erasedHash, lost

T == INSTANCE TransferSession WITH
        Post <- TransferPost, Chat <- Talk, MaxFaults <- MaxLost,
        session <- tsession, fresh <- tfresh, cp <- tcp, lock <- tlock, pc <- tpc,
        mem <- tmem, erased <- erasedHash, faults <- lost

transferVars == <<tsession, tfresh, tcp, tlock, tpc, tmem, cards, accepted, erasedHash, lost>>
allVars == <<vars, kind, transferVars>>

SessionsInit == Init /\ T!Init /\ kind \in {"swap", "transfer"}

SessionsNext ==
    \/ kind = "swap" /\ Next /\ UNCHANGED <<kind, transferVars>>
    \/ kind = "transfer" /\ T!Next /\ UNCHANGED <<kind, vars>>

Swap(A) == kind = "swap" /\ A /\ UNCHANGED <<kind, transferVars>>

\* The fairness of FairSpec, for the sessions that are about a swap.
SwapsFair ==
    /\ \A g \in Poll : WF_allVars(Swap(PollStep(g)))
    /\ \A h \in Hash : WF_allVars(Swap(Settle(h)))

SessionsSpec == SessionsInit /\ [][SessionsNext]_allVars /\ SwapsFair

\* docs/app-integration.md:291, of a transfer: one broadcast per prepared card,
\* until a projection has erased its hash.
OneBroadcastPerCard == T!OneBroadcastPerCard
=============================================================================
