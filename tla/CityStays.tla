------------------------------- MODULE CityStays -------------------------------
(* The owner's names for places, and the stays in cities they give the     *)
(* events of the calendar (modules/location/location-alias.service.ts).    *)
(* Every writer of names, events or the selection of a calendar rebuilds   *)
(* all stays under one lock of the owner, in a READ COMMITTED transaction: *)
(* what a transaction has written is seen by others when it commits.       *)
(*                                                                         *)
(* Names are compared by the keyed hash of their canonical form.           *)
EXTENDS Integers, FiniteSets

CONSTANTS
    Aliases,     \* ids of LocationAlias rows
    Macs,        \* hashes of canonical names
    Cities,
    StayEvents,  \* ids of CalendarEvent rows
    StayWriters, \* concurrent transactions
    Nobody,
    MaxWrites    \* bound on the transactions

VARIABLES
    alias,      \* the LocationAlias rows: [mac, city], Nil if there is none
    place,      \* the hash of the place of each event that counts, Nil of others
    selected,   \* the source is selected and its connection active
    stays,      \* the CityStay rows: <<event, city>>
    writer,     \* local state of each transaction
    lock,       \* the holder of the owner's advisory lock
    owed,       \* history: a selection was written and its rebuild has not committed
    writes

stayVars == <<alias, place, selected, stays, writer, lock, owed, writes>>

Nil == "none"
NoAlias == [mac |-> Nil, city |-> Nil]
Alias == [mac : Macs, city : Cities] \cup {NoAlias}
Quiet == [stage |-> "idle", kind |-> Nil, id |-> Nil, new |-> NoAlias, place |-> Nil,
          selects |-> FALSE, stays |-> {}]

Init ==
    /\ alias = [a \in Aliases |-> NoAlias]
    /\ place = [e \in StayEvents |-> Nil]
    /\ selected = TRUE
    /\ stays = {}
    /\ writer = [w \in StayWriters |-> Quiet]
    /\ lock = Nobody
    /\ owed = FALSE
    /\ writes = 0

Begins(w, kind, id) ==
    /\ writer[w].stage = "idle"
    /\ writes < MaxWrites
    /\ writes' = writes + 1
    /\ \A v \in StayWriters : writer[v].kind = "sync" => writer[v].id # id   \* the lock on its row

(* A synchronisation writes an event, or removes it, then asks for the lock. *)
BeginSync(w, e, mac) ==
    /\ Begins(w, "sync", e)
    /\ writer' = [writer EXCEPT ![w] =
                      [Quiet EXCEPT !.stage = "wait", !.kind = "sync", !.id = e, !.place = mac]]
    /\ UNCHANGED <<alias, place, selected, stays, lock, owed>>

BeginAlias(w, a, new) ==
    /\ Begins(w, "alias", a)
    /\ writer' = [writer EXCEPT ![w] =
                      [Quiet EXCEPT !.stage = "wait", !.kind = "alias", !.id = a, !.new = new]]
    /\ UNCHANGED <<alias, place, selected, stays, lock, owed>>

(* The selection, or the end of the connection, commits on its own; the    *)
(* rebuild is another transaction.                                         *)
Select(w) ==
    /\ Begins(w, "select", Nil)
    /\ selected' = ~ selected
    /\ owed' = TRUE
    /\ writer' = [writer EXCEPT ![w] = [Quiet EXCEPT !.stage = "wait", !.kind = "select"]]
    /\ UNCHANGED <<alias, place, stays, lock>>

Anyway == TRUE
LockIsFree == lock = Nobody

Acquire(w) ==
    /\ writer[w].stage = "wait"
    /\ LockIsFree
    /\ lock' = w
    /\ writer' = [writer EXCEPT ![w].stage = "locked"]
    /\ UNCHANGED <<alias, place, selected, stays, owed, writes>>

(* rebuildCalendarStaysInTransaction: what is committed and what the       *)
(* transaction wrote itself.                                               *)
AliasSeen(w) ==
    [a \in Aliases |-> IF writer[w].kind = "alias" /\ writer[w].id = a THEN writer[w].new ELSE alias[a]]
PlaceSeen(w) ==
    [e \in StayEvents |-> IF writer[w].kind = "sync" /\ writer[w].id = e THEN writer[w].place ELSE place[e]]

StaysOf(aliases, places, counts) ==
    IF ~ counts THEN {}
    ELSE {x \in StayEvents \X Cities : \E a \in Aliases :
             aliases[a] # NoAlias /\ aliases[a].mac = places[x[1]] /\ aliases[a].city = x[2]}

Allowed(w) ==
    writer[w].kind = "alias" /\ writer[w].new # NoAlias =>
        \A a \in Aliases \ {writer[w].id} : alias[a].mac # writer[w].new.mac

Rebuild(w) ==
    /\ writer[w].stage = "locked"
    /\ IF Allowed(w)
       THEN /\ writer' = [writer EXCEPT ![w].stage = "rebuilt",
                              ![w].stays = StaysOf(AliasSeen(w), PlaceSeen(w), selected)]
            /\ UNCHANGED lock
       ELSE /\ writer' = [writer EXCEPT ![w] = Quiet]    \* a duplicate: rolled back
            /\ lock' = IF lock = w THEN Nobody ELSE lock
    /\ UNCHANGED <<alias, place, selected, stays, owed, writes>>

Commit(w) ==
    /\ writer[w].stage = "rebuilt"
    /\ alias' = AliasSeen(w)
    /\ place' = PlaceSeen(w)
    /\ stays' = writer[w].stays
    /\ owed' = (owed /\ ~ (writer[w].stays = StaysOf(AliasSeen(w), PlaceSeen(w), selected)))
    /\ lock' = IF lock = w THEN Nobody ELSE lock
    /\ writer' = [writer EXCEPT ![w] = Quiet]
    /\ UNCHANGED <<selected, writes>>

(* An error or a crash: the transaction is rolled back. *)
Abort(w) ==
    /\ writer[w].stage # "idle"
    /\ lock' = IF lock = w THEN Nobody ELSE lock
    /\ writer' = [writer EXCEPT ![w] = Quiet]
    /\ UNCHANGED <<alias, place, selected, stays, owed, writes>>

Next ==
    \E w \in StayWriters :
        \/ \E e \in StayEvents, mac \in Macs \cup {Nil} : BeginSync(w, e, mac)
        \/ \E a \in Aliases, new \in Alias : BeginAlias(w, a, new)
        \/ Select(w) \/ Acquire(w) \/ Rebuild(w) \/ Commit(w) \/ Abort(w)

Spec == Init /\ [][Next]_stayVars

(* The stays are those of the names and events that have committed,        *)
(* whatever writers overlap; only a selection whose rebuild was lost or is *)
(* still to come leaves them behind.                                       *)
StaysFollow == ~ owed => stays = StaysOf(alias, place, selected)
================================================================================
