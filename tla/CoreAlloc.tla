----------------------------- MODULE CoreAlloc -----------------------------
(***************************************************************************)
(* What the decoder scheduler promises, without threads, masks, lists or   *)
(* semaphores: instances join a group, members are handed free hardware    *)
(* cores and lose them again, and a member may leave when it has asked to  *)
(* and owns nothing.  VdecCore implements this (AllocSpec there).          *)
(***************************************************************************)
CONSTANTS Vdec, NoVdec, Core

VARIABLES
  owner,    \* the instance that holds a core, or NoVdec
  member,   \* instances that take part in the scheduling
  leaving   \* members that have asked to leave

allocVars == <<owner, member, leaving>>

AllocInit ==
  /\ owner = [c \in Core |-> NoVdec]
  /\ member = {} /\ leaving = {}

OwnsNothing(v) == \A c \in Core : owner[c] # v

(* vdec_connect: new members own nothing.                                  *)
Join(S) ==
  /\ S # {} /\ S \cap member = {}
  /\ \A v \in S : OwnsNothing(v)
  /\ member' = member \cup S
  /\ UNCHANGED <<owner, leaving>>

(* vdec_disconnect: members ask to leave.                                  *)
AskToLeave(S) ==
  /\ S \subseteq member
  /\ leaving' = leaving \cup S
  /\ UNCHANGED <<owner, member>>

(* The scheduler hands free cores to a member.                             *)
HandOut(v, cs) ==
  /\ v \in member
  /\ cs # {} /\ \A c \in cs : owner[c] = NoVdec
  /\ owner' = [c \in Core |-> IF c \in cs THEN v ELSE owner[c]]
  /\ UNCHANGED <<member, leaving>>

(* One pass: cores become free, and members that asked to leave and now    *)
(* own nothing are gone.                                                   *)
TakeBack(cs, S) ==
  /\ owner' = [c \in Core |-> IF c \in cs THEN NoVdec ELSE owner[c]]
  /\ S \subseteq leaving
  /\ \A v \in S, c \in Core : owner'[c] # v
  /\ member' = member \ S
  /\ leaving' = leaving \ S

AllocNext ==
  \/ \E S \in SUBSET Vdec : Join(S) \/ AskToLeave(S)
  \/ \E v \in Vdec, cs \in SUBSET Core : HandOut(v, cs)
  \/ \E cs \in SUBSET Core, S \in SUBSET Vdec : TakeBack(cs, S)

AllocSpec == AllocInit /\ [][AllocNext]_allocVars

=============================================================================
