---------------------------- MODULE EngineEvents ----------------------------
(***************************************************************************)
(* What MatchingEngine (include/matching_engine.hpp) reads off the events  *)
(* of a book: whether one of them says that the visible book changed.      *)
(***************************************************************************)
EXTENDS ExchangeTypes

\* Mutant: a cancelled order does not count as a change.
event_changes_book_NotCancel(type) == type \in {"Trade", "OrderModified", "OrderRested"}

\* Mutant: an order that comes to rest does not count as a change.
event_changes_book_NotRested(type) == type \in {"Trade", "OrderModified", "OrderCancelled"}

event_changes_book(type) ==
  type \in {"Trade", "OrderModified", "OrderCancelled", "OrderRested"}

\* Mutant: every event that is not a rejection counts.
book_changed_UnlessRejected(events) ==
  \E i \in DOMAIN events : events[i].event_type # "OrderRejected"

book_changed(events) == \E i \in DOMAIN events : event_changes_book(events[i].event_type)
=============================================================================
