---------------------------- MODULE TicketTables ----------------------------
(***************************************************************************)
(* The two views of the ticket tables side by side: the transactions that  *)
(* write them (TicketStore) and the pages that are read off them           *)
(* (TicketList).  The list needs nothing of the transactions but that they *)
(* implement TicketLedger; so a behaviour shows one of the two.            *)
(***************************************************************************)
EXTENDS TicketStoreInvariant, TicketList

tableVars == <<vars, listVars>>

TablesInit == Init /\ ListInit

(* Nobody has used the list, and its ledger is empty.                      *)
BeforeListing == phase = "idle" /\ \A t \in Tickets : log[t] = <<>>

(* No request has come, and no target is switched off.                     *)
BeforeStoring == active = Targets /\ \A r \in Requests : pc[r] = "idle"

Stores(step) == BeforeListing /\ step /\ UNCHANGED listVars
Lists(step) == BeforeStoring /\ step /\ UNCHANGED vars

TablesNext == Stores(Next) \/ Lists(ListNext)

TablesSpec == TablesInit /\ [][TablesNext]_tableVars

(* The transactions alone, for an instance whose list says nothing new.    *)
StoresInit == TablesInit /\ BeforeListing

StoresSpec == StoresInit /\ [][Stores(Next)]_tableVars

(* A statement that can run eventually runs: goroutines are scheduled, and *)
(* PostgreSQL grants a row lock once its holder has ended.  The client     *)
(* asks for the next page until there is none.                             *)
FairSpec ==
    /\ TablesSpec
    /\ \A r \in Requests : WF_tableVars(Stores(Proceed(r)))
    /\ WF_tableVars(Lists(ReadPage))
=============================================================================
