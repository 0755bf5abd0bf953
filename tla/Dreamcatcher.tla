---------------------------- MODULE Dreamcatcher ----------------------------
(***************************************************************************)
(* The memory store of Green Brainz as the cognitive host uses it:         *)
(* DreamcatcherStore.remember() and its branch reference in                *)
(* memory/dreamcatcher-memory.mjs, on the one branch the host opens.       *)
(*                                                                         *)
(* Objects are content addressed and never change, so a head hash stands   *)
(* for the set of keys its trie maps.  What can go wrong is the reference: *)
(* it is read at the beginning of remember() and replaced at its end.      *)
(***************************************************************************)
EXTENDS Naturals, Sequences, FiniteSets

CONSTANTS
  Key,
  Call,  \* concurrent asynchronous calls into the memory
  None

VARIABLES
  head,     \* keys reachable from the branch reference on disk
  rem       \* per call: the remember() it awaits

storeVars == <<head, rem>>

NoRemember == [pc |-> "none", key |-> None, root |-> {}]

StoreInit ==
  /\ head = {}
  /\ rem = [c \in Call |-> NoRemember]

(* remember() up to its first await. *)
Remember(c, k) ==
  /\ rem' = [rem EXCEPT ![c] = [pc |-> "init", key |-> k, root |-> {}]]
  /\ head' = head

(* readRef() and what is built on the head it returns. *)
ReadRef(c) ==
  /\ rem[c].pc = "init"
  /\ rem' = [rem EXCEPT ![c] = [pc |-> "read", key |-> rem[c].key, root |-> head]]
  /\ head' = head

(* writeRef() ends: the reference is what this call made of the old one.   *)
WriteRef(c) ==
  /\ rem[c].pc = "read"
  /\ head' = rem[c].root \cup {rem[c].key}

(* A file operation fails at any of its awaits. *)
RememberFails(c) ==
  /\ rem[c].pc # "none"
  /\ head' = head

StoreTypeOK ==
  /\ head \subseteq Key
  /\ rem \in [Call -> [pc: {"none", "init", "read"}, key: Key \cup {None},
                       root: SUBSET Key]]
=============================================================================
