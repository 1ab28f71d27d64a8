-------------------------- MODULE TicketPageInvariant --------------------------
(***************************************************************************)
(* The inductive invariant of TicketPage: what every request on its way    *)
(* has in common with the page that sent it and the server that answers.   *)
(* TLC checks it on a small instance; TicketPageProofs proves it.          *)
(***************************************************************************)
EXTENDS TicketPage

ListOps   == {"first", "more"}
TicketOps == {"detail", "accept", "refresh", "assign"}
Kinds     == {"none", "ok", "error", "conflict", "signed_out"}

Moment == [list : Nat, view : Views, gen : Nat, chat : Nat]
Reply == [kind : Kinds, rows : Seq(Row), more : BOOLEAN]
Calls == [op : ListOps \cup TicketOps \cup {"create"}, ticket : Tickets \cup {None},
          before : Tickets \cup {None}, at : Moment, reply : Reply]

Exists(t) == t \in Tickets /\ server[t] # "absent"

(* What is shown exists, newest first, and only a list with rows has more. *)
ShownExists ==
    /\ \A i \in DOMAIN list.rows : Exists(list.rows[i].id)
    /\ chat.ticket # None => Exists(chat.ticket)
    /\ Descending(list.rows)
    /\ list.more => list.rows # <<>>

(* A page that was read for c.                                             *)
PageReply(c) ==
    /\ \A i \in DOMAIN c.reply.rows : Exists(c.reply.rows[i].id)
    /\ Descending(c.reply.rows)
    /\ c.reply.more => c.reply.rows # <<>>
    /\ c.op = "more" => \A i \in DOMAIN c.reply.rows : c.reply.rows[i].id < c.before

TicketReply(c) == c.reply.rows # <<>> /\ c.reply.rows[1].id = c.ticket

CallOK(c) ==
    /\ c \in Calls
    /\ c.reply = Unanswered \/ c.reply.kind # "none"
    /\ c.op \in TicketOps => Exists(c.ticket)
    /\ c.op = "more" => c.before # None
    /\ c.reply.kind = "ok" /\ c.op \in ListOps => PageReply(c)
    /\ c.reply.kind = "ok" /\ c.op \in TicketOps => TicketReply(c)

(* An acceptance does not bring back a pending ticket: it answers with the *)
(* user's own, and after a conflict the ticket is somebody's for good.     *)
AcceptanceOK(c) ==
    /\ c.reply.kind = "conflict" =>
          c.op = "accept" /\ server[c.ticket] \in {"theirs", "closed"}
    /\ c.op = "refresh" => server[c.ticket] \in {"theirs", "closed"}
    /\ c.op \in {"accept", "refresh"} /\ c.reply.kind = "ok" =>
          c.reply.rows[1].status # "pending"

CallsOK == \A c \in calls : CallOK(c) /\ AcceptanceOK(c)

(* The list request that counts is the only one with its number, and the   *)
(* list still is what it was when the request was sent.                    *)
ListCallOK(c) ==
    /\ c.at.list <= list.seq
    /\ c.at.list = list.seq =>
          /\ list.busy
          /\ c.at.view = view \/ (BehindDialog /\ view = "open")
          /\ c.op = "first" => list.rows = <<>>
          /\ c.op = "more" =>
                list.rows # <<>> /\ c.before = list.rows[Len(list.rows)].id

ListCallsOK ==
    /\ \A c \in calls : c.op \in ListOps => ListCallOK(c)
    /\ \A c, d \in calls :
          c.op \in ListOps /\ d.op \in ListOps /\ c.at.list = d.at.list => c = d

(* Each mutation in flight holds its ticket.                               *)
AcceptOps == {"accept", "refresh"}

MutationsGuarded ==
    /\ \A c \in calls : c.op \in AcceptOps => c.ticket \in accepting
    /\ \A c \in calls : c.op = "assign" => c.ticket \in assigning
    /\ \A c, d \in calls :
          c.op \in AcceptOps /\ d.op \in AcceptOps /\ c.ticket = d.ticket => c = d
    /\ \A c, d \in calls : c.op = "assign" /\ d.op = "assign" => c = d

(* A dialog waits for its request; the mouse reaches nothing behind it.    *)
DialogsWait ==
    /\ \A c \in calls : c.op = "create" => dialogs.new
    /\ \A c, d \in calls : c.op = "create" /\ d.op = "create" => c = d
    /\ ~BehindDialog =>
          /\ dialogs.new => ~list.busy /\ dialogs.assign = None
          /\ onPage => \A c \in calls : c.op = "assign" => dialogs.assign = c.ticket

PageInvariant ==
    /\ TypeOK
    /\ ShownExists
    /\ CallsOK
    /\ ListCallsOK
    /\ MutationsGuarded
    /\ DialogsWait
=============================================================================
