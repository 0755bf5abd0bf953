---------------------------- MODULE MonitorPlace ----------------------------
(***************************************************************************)
(* monitor/place.mjs: workers bind and yield slices of the machine beside  *)
(* the llama floor, at most ExtraSlots of them.  A call that the caller's  *)
(* role or kernel forbids throws and changes nothing: it is left out.      *)
(***************************************************************************)
EXTENDS RejectCache, Integers, Sequences, FiniteSets

CONSTANTS
    Slices,       \* slices that can be bound
    FloorSlices,  \* slices of the floor: llama, ipc, respond, ...
    LlamaFloor,   \* those of them that name the llama floor
    Workers,
    Unnamed,      \* no slice, or no worker, is named in the call
    ExtraSlots    \* extraSlots

ASSUME SlotsAssumption == ExtraSlots \in Nat

VARIABLES
    places,       \* occupied without the llama floor, in the order of binding
    extraCount    \* extraCount

placeVars == <<places, extraCount>>

PlaceInit == places = << >> /\ extraCount = 0

(* findExtra, and the first of all when the call names neither: the positions that
   match, by slice if it is bound, else by worker. *)
Matching(slice, worker) ==
    LET bySlice  == {i \in DOMAIN places : places[i].slice = slice}
        byWorker == {i \in DOMAIN places : places[i].worker = worker} IN
    IF slice = Unnamed /\ worker = Unnamed THEN DOMAIN places
    ELSE IF bySlice # {} THEN bySlice ELSE byWorker

Without(position) ==
    [i \in 1..(Len(places) - 1) |-> IF i < position THEN places[i] ELSE places[i + 1]]

(* Mutant: the slot is counted when it is asked for. *)
BindEager(slice, worker, capable, ticket) ==
    IF \/ ~capable
       \/ slice \in FloorSlices
       \/ extraCount >= ExtraSlots
       \/ \E i \in DOMAIN places : places[i].slice = slice
    THEN /\ Reject(ticket, "place")
         /\ extraCount' = IF extraCount < ExtraSlots THEN extraCount + 1 ELSE extraCount
         /\ UNCHANGED places
    ELSE /\ places' = Append(places, [slice |-> slice, worker |-> worker])
         /\ extraCount' = extraCount + 1
         /\ UNCHANGED rejected

Bind(slice, worker, capable, ticket) ==
    IF \/ ~capable
       \/ slice \in FloorSlices
       \/ extraCount >= ExtraSlots
       \/ \E i \in DOMAIN places : places[i].slice = slice
    THEN Reject(ticket, "place") /\ UNCHANGED placeVars
    ELSE /\ places' = Append(places, [slice |-> slice, worker |-> worker])
         /\ extraCount' = extraCount + 1
         /\ UNCHANGED rejected

(* Whoever asks, and whoever bound the slice; a slice that is not bound, one of the
   floor too, leaves the choice to the worker. *)
Yield(slice, worker, capable, ticket) ==
    LET found == Matching(slice, worker) IN
    IF ~capable \/ slice \in LlamaFloor \/ found = {}
    THEN Reject(ticket, "place") /\ UNCHANGED placeVars
    ELSE /\ \E first \in found :
              (\A i \in found : first <= i) /\ places' = Without(first)
         /\ extraCount' = IF extraCount > 0 THEN extraCount - 1 ELSE 0
         /\ UNCHANGED rejected

PlaceNext ==
    \E ticket \in Tickets, capable \in BOOLEAN, worker \in Workers :
        \/ \E slice \in Slices \cup FloorSlices : Bind(slice, worker, capable, ticket)
        \/ \E slice \in Slices \cup FloorSlices \cup {Unnamed} :
              Yield(slice, worker, capable, ticket) \/ Yield(slice, Unnamed, capable, ticket)

(* The counter that refuses a binding is the number of slices bound, over any
   sequence of bindings, rejects and yields by slice, by worker or by neither: no
   slot is lost and none is given twice. *)
SlotsCounted ==
    /\ extraCount = Len(places)
    /\ extraCount <= ExtraSlots
    /\ \A i, j \in DOMAIN places : places[i].slice = places[j].slice => i = j
=============================================================================
