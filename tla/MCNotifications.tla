-------------------------- MODULE MCNotifications ---------------------------
(* Instances of Notifications for TLC.                                     *)
EXTENDS Notifications

CONSTANTS s1, s2

OneSub == {s1}
TwoSubs == {s1, s2}
SecondSub == {s2}

RootPath == {<<>>}
RootAndA == {<<>>, <<"a">>}

\* A behaviour has one subscription, with smaller bounds if it has an interval thread.
OneMade == \A s, t \in Sub : scope[s] # None /\ scope[t] # None => s = t

SmallWithThread ==
  \A s \in IntervalSub : scope[s] # None =>
    /\ now < MaxTime
    /\ newSub # None => newSub.throttling \in {-1, 2} /\ newSub.count < MaxCount - 1
    /\ csi[s] # None => csi[s].count < MaxCount - 1
    /\ trigs[s] # None => csubs[s].count < MaxCount - 1

NextOfOne == Next /\ OneMade' /\ SmallWithThread'

SpecOfOne == Init /\ [][NextOfOne]_vars
=============================================================================
