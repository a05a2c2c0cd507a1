------------------------------- MODULE EventFeed -------------------------------
(***************************************************************************)
(* What the event stream of a run promises its readers: the events in the  *)
(* order in which they happened, each once, and all of them in the end.    *)
(***************************************************************************)
EXTENDS Integers, Sequences

CONSTANTS FeedReaders, FeedEvents

VARIABLES
  feed,    \* the events published
  views    \* what each reader has seen

feedVars == <<feed, views>>

Init == feed = <<>> /\ views = [r \in FeedReaders |-> <<>>]

Publish(e) == feed' = Append(feed, e) /\ UNCHANGED views

Deliver(r) ==
  /\ Len(views[r]) < Len(feed)
  /\ views' = [views EXCEPT ![r] = Append(@, feed[Len(@) + 1])]
  /\ UNCHANGED feed

Next == (\E e \in FeedEvents : Publish(e)) \/ (\E r \in FeedReaders : Deliver(r))

Spec == Init /\ [][Next]_feedVars /\ \A r \in FeedReaders : WF_feedVars(Deliver(r))
===============================================================================
