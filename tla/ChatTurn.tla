------------------------------ MODULE ChatTurn ------------------------------
(***************************************************************************)
(* The two graphs that answer a chat turn, of which a deployment has one:  *)
(* "react" is the ReAct graph, "slots" the slot-filling graph.  In the     *)
(* latter the read-only loop answers a read of the first turn, and a       *)
(* single step one of a later turn or about a transaction.                 *)
(***************************************************************************)
EXTENDS ReactTurn

CONSTANTS
    Symbol, Chain, SlotAmount, Provider, NativeOf, BtcChain, WalletChain, MaxSaid,
    MaxBroadcasts, MaxHistory,
    ReadCall, NameOf, NoCall, MaxRounds, MaxParallel, MaxBatch

VARIABLES
    world,  \* what takes the steps
    scp, spc, said, sturns, placed, abandoned, rd

S == INSTANCE SlotTurn WITH
        Amount <- SlotAmount, MaxOrders <- MaxBroadcasts, cp <- scp, pc <- spc, turns <- sturns

L == INSTANCE ReadOnlyLoop WITH Call <- ReadCall

slotVars == <<scp, spc, said, sturns, placed, abandoned>>

InLoop == spc = "read" /\ sturns = 1 /\ scp.query = None

SlotNext ==
    \/ ~InLoop /\ S!Next /\ UNCHANGED rd
    \/ InLoop /\ (L!ReadStart \/ L!ReadNext) /\ UNCHANGED slotVars
    \/ InLoop /\ L!ReadResponds /\ S!EndTurn /\ UNCHANGED <<scp, sturns, placed, abandoned>>
    \/ InLoop /\ S!Crash /\ rd' = L!ReadIdle

chatVars == <<vars, slotVars, rd>>

ChatInit == Init /\ S!Init /\ rd = L!ReadIdle

ChatNext ==
    \/ world = "react" /\ Next /\ UNCHANGED <<world, slotVars, rd>>
    \/ world = "slots" /\ SlotNext /\ UNCHANGED <<world, vars>>

ChatSpec == ChatInit /\ [][ChatNext]_<<world, chatVars>>

----------------------------------------------------------------------------

\* Of the slot-filling graph and its read-only loop.
SlotTypeOK == world = "slots" => S!TypeOK /\ L!ReadTypeOK
SlotsAgree == world = "slots" => S!SlotsAgree
OrderKept == world = "slots" => S!OrderKept
AskedForSlots == S!AskedForSlots

\* Of the read-only loop.
QueueRuns == world = "slots" => L!QueueRuns
=============================================================================
