--------------------------- MODULE ArenaLifetimes ----------------------------
(***************************************************************************)
(* The workloads an arena serves between two resets.  log holds what was   *)
(* asked of the arena in this lifetime and where it was served, previous   *)
(* the log of the lifetime before, retained the number of chunks that the  *)
(* last reset kept.                                                        *)
(***************************************************************************)
EXTENDS Arena

VARIABLES log, previous, retained

lifetimes == <<log, previous, retained>>

InitLifetimes == Init /\ log = <<>> /\ previous = <<>> /\ retained = 1

Logs(what, place) ==
    /\ log' = Append(log, [what |-> what, place |-> place])
    /\ UNCHANGED <<previous, retained>>

NextLifetimes ==
    \/ \E q \in Requests :
          \/ Allocate(q) /\ Logs(<<"served", q>>, Storage(last_allocation'))
          \/ AllocateFails(q) /\ Logs(<<"refused">>, Nowhere)
          \/ \E trivial \in BOOLEAN : Create(q, trivial) /\ Logs(<<"served", q>>, Storage(last_allocation'))
    \/ CreateFails /\ Logs(<<"abandoned">>, Top.at)
    \/ /\ ConstructorReturns \/ RegistrationFails \/ Reset \/ End
          \/ RunDestructor \/ DestructorReturns \/ FinishEnd
       /\ UNCHANGED lifetimes
    \/ /\ FinishReset
       /\ previous' = log /\ log' = <<>> /\ retained' = Len(chunks')

SpecLifetimes == InitLifetimes /\ [][NextLifetimes]_<<vars, lifetimes>>

\* The first n calls of this lifetime repeat those of the one before, none of
\* which was refused.
Repeats(n) ==
    \A i \in 1 .. n :
       /\ log[i].what = previous[i].what
       /\ log[i].what # <<"refused">>
       /\ log[i].what = <<"abandoned">> => log[i].place = previous[i].place

\* As the comment in reset() promises for retain_all: as long as a workload
\* repeats the previous one, failed constructions and calls from constructors
\* and destructors included, it gets the same addresses and the provider is
\* not called.
RepeatedWorkloadReusesAddresses ==
    options.reset = "retain_all" /\ chunks # <<>> =>
       \A n \in 1 .. Len(log) :
          n <= Len(previous) /\ Repeats(n) =>
             /\ log[n].place = previous[n].place
             /\ n = Len(log) => Len(chunks) = retained
==============================================================================
