----------------------------- MODULE ActorLease -----------------------------
(***************************************************************************)
(* Who is signed in on the driver's phone.                                 *)
(* src/frontend/driver-pwa/lib/session/custody-context.ts and the session  *)
(* handling of lib/context/AuthContext.tsx.                                *)
(*                                                                         *)
(* Two identities are kept: the account of the auth session (subject) and  *)
(* the driver bound to it once the profile has been read (actor).  Every   *)
(* change of session starts a new generation.  Work in progress holds the  *)
(* generation it started in, and a profile answer of an older generation   *)
(* must not bind.  A profile read that fails and is tried again            *)
(* (retryProfile) is one that answers late.                                *)
(***************************************************************************)
EXTENDS Naturals

CONSTANTS
  Drivers,
  NoDriver,
  MaxGenerations    \* bound: session changes explored in one behaviour

ASSUME LeaseAssumption ==
  /\ NoDriver \notin Drivers
  /\ MaxGenerations \in Nat

VARIABLES
  subject,          \* the account whose token requests carry
  actor,            \* state.actorId: the driver bound to the session
  generation,
  lookups           \* profile reads in progress, with their generation

leaseVars == <<subject, actor, generation, lookups>>
-----------------------------------------------------------------------------
Lookup(d, g) == [who |-> d, gen |-> g]

NewGeneration(pending) ==
  /\ generation < MaxGenerations
  /\ generation' = generation + 1
  /\ actor' = NoDriver
  /\ lookups' = pending

(* observeAuthSession for a session of account d (or of nobody): the lease *)
(* ends at once, and restore() starts reading the new account's profile.   *)
Observe(d) ==
  /\ d # subject
  /\ subject' = d
  /\ NewGeneration(IF d = NoDriver THEN lookups
                   ELSE lookups \cup {Lookup(d, generation + 1)})

(* performSignOut: the lease ends before the token does.                   *)
SignOut ==
  /\ actor # NoDriver
  /\ NewGeneration(lookups)
  /\ UNCHANGED subject

(* bindActorLease: a profile answer binds only in its own generation.      *)
MayBind(l) == l.gen = generation

ProfileAnswer(l) ==
  /\ lookups' = lookups \ {l}
  /\ actor' = IF MayBind(l) THEN l.who ELSE actor
  /\ UNCHANGED <<subject, generation>>

SessionStep ==
  \/ \E d \in Drivers \cup {NoDriver} : Observe(d)
  \/ SignOut
  \/ \E l \in lookups : ProfileAnswer(l)

(* The app restarted: module state is gone, the stored session is not, and *)
(* its profile is read again.  (The counter starts over in the code; here  *)
(* it goes on, because nothing that held an older value is left.)          *)
Reading(d) == IF d = NoDriver THEN {} ELSE {Lookup(d, generation)}

ForgetLease ==
  /\ actor' = NoDriver
  /\ lookups' = Reading(subject)
  /\ UNCHANGED <<subject, generation>>
-----------------------------------------------------------------------------
(* captureActorLease and isActorLeaseCurrent                               *)
Lease == [actor |-> actor, gen |-> generation]
LeaseIsCurrent(l) == l.actor # NoDriver /\ l = Lease

\* the app opens, with or without a stored session
LeaseInit ==
  /\ subject \in Drivers \cup {NoDriver}
  /\ actor = NoDriver
  /\ generation = 0
  /\ lookups = Reading(subject)

LeaseTypeOK ==
  /\ subject \in Drivers \cup {NoDriver}
  /\ actor \in Drivers \cup {NoDriver}
  /\ generation \in 0..MaxGenerations
  /\ lookups \subseteq [who: Drivers, gen: 0..MaxGenerations]

(* While a driver is bound, requests carry that driver's own token: the    *)
(* slow profile answer of an account that has since signed out never puts  *)
(* its driver in front of the next account's session.                      *)
ActorIsTheSession == actor # NoDriver => actor = subject

(* What makes ActorIsTheSession inductive: a profile read of the current   *)
(* generation is the current account's.                                    *)
LookupsFitTheSession ==
  \A l \in lookups : /\ l.gen <= generation
                     /\ l.gen = generation => l.who = subject

LeaseInv == LeaseTypeOK /\ LookupsFitTheSession /\ ActorIsTheSession
=============================================================================
