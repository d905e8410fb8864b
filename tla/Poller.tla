------------------------------- MODULE Poller -------------------------------
(***************************************************************************)
(* base/SelectPoller.cpp and base/EventHandler.cpp: what a loop polls, and *)
(* whom it calls.  A poller is a record                                    *)
(*   pollFds      the array given to poll(2): descriptors and the events   *)
(*                asked for                                                *)
(*   evHandlers   the handler of each descriptor                           *)
(* and every operation is an operator that returns the poller after it.  A *)
(* handler, one of its owner's names for it here, belongs to one           *)
(* descriptor, but nothing keeps two handlers from having the same one.    *)
(***************************************************************************)
EXTENDS Integers, SequencesExt

EmptyPoller == [pollFds |-> <<>>, evHandlers |-> <<>>]

Known(p, fd) == fd \in DOMAIN p.evHandlers

(* the first entry of the descriptor in pollFds_ *)
EntryOf(p, fd) ==
  CHOOSE i \in DOMAIN p.pollFds :
    p.pollFds[i].fd = fd /\ \A j \in 1 .. i - 1 : p.pollFds[j].fd # fd

(* registerEvHandler, which EventHandler::update calls.  For a descriptor  *)
(* that is known only the events change: it keeps its handler.             *)
RegisterEvHandler(p, handler, fd, events) ==
  IF ~Known(p, fd)
  THEN [pollFds |-> Append(p.pollFds, [fd |-> fd, events |-> events]),
        evHandlers |-> [f \in DOMAIN p.evHandlers \cup {fd} |->
                          IF f = fd THEN handler ELSE p.evHandlers[f]]]
  ELSE [pollFds |-> [p.pollFds EXCEPT ![EntryOf(p, fd)] = [fd |-> fd, events |-> events]],
        evHandlers |-> p.evHandlers]

(* removeEvHandler looks at the descriptor alone, not whose it is. *)
RemoveEvHandler(p, fd) ==
  IF ~Known(p, fd) THEN p
  ELSE [pollFds |-> RemoveAt(p.pollFds, EntryOf(p, fd)),
        evHandlers |-> [f \in DOMAIN p.evHandlers \ {fd} |-> p.evHandlers[f]]]

(* ~EventHandler: disableAll, then remove *)
DeleteEvHandler(p, handler, fd) ==
  RemoveEvHandler(RegisterEvHandler(p, handler, fd, {}), fd)

(* findActiveEvHandlers gives this handler an event of the descriptor.     *)
Reports(p, handler, fd, event) ==
  /\ \E i \in DOMAIN p.pollFds : p.pollFds[i].fd = fd /\ event \in p.pollFds[i].events
  /\ Known(p, fd) /\ p.evHandlers[fd] = handler

(* Every descriptor polled is polled once and has a handler, as the        *)
(* assertions of findActiveEvHandlers say, and every handler is polled.    *)
Consistent(p) ==
  /\ \A i, j \in DOMAIN p.pollFds : p.pollFds[i].fd = p.pollFds[j].fd => i = j
  /\ {p.pollFds[i].fd : i \in DOMAIN p.pollFds} = DOMAIN p.evHandlers
=============================================================================
