---------------------------- MODULE AssignDialog ----------------------------
(***************************************************************************)
(* The dialog that assigns a ticket to groups and users                    *)
(* (frontend/src/lib/components/AssignTicketDialog.svelte): it loads the   *)
(* ticket, the groups and then the users of the ticket's groups, searches  *)
(* users with a delay while the user types, and again whenever the groups  *)
(* change, and sends the selection.  The component stays mounted: closing  *)
(* it stops neither its calls nor its timer, and the next ticket uses the  *)
(* same variables.  Answers come in any order, or are failures.            *)
(*                                                                         *)
(* The directory does not change while the dialog is used, so a list of    *)
(* users is right or wrong by the filters it was fetched for.              *)
(***************************************************************************)
EXTENDS Naturals

CONSTANTS
    Tickets, Departments, Users,
    HomeOf,        \* the department of a user
    Assigned,      \* per ticket, the departments and users assigned to it
    Terms,         \* what can be typed into the user search
    Found,         \* per term, the active users it matches
    Everyone,      \* the empty term
    MaxClicks,     \* bound: clicks and keystrokes of the user
    None

ASSUME DirectoryIsGiven ==
    /\ HomeOf \in [Users -> Departments]
    /\ Assigned \in [Tickets -> [departments : SUBSET Departments,
                                 users : SUBSET Users]]
    /\ Everyone \in Terms /\ Found \in [Terms -> SUBSET Users]
    /\ None \notin Tickets

VARIABLES
    ticketID,      \* the ticket the dialog is open for, or None
    form,          \* what the dialog shows
    userTimer,     \* the delayed search, or None
    loadSequence, userSearchSequence,
    lookups,       \* calls in flight
    assigning,     \* the assignment in flight, or None
    signedOut,     \* the page was left for the login page
    acts           \* clicks and keystrokes so far

assignVars == <<ticketID, form, userTimer, loadSequence, userSearchSequence,
                lookups, assigning, signedOut, acts>>

\* The state of the form after resetDialogState, with nothing loaded.
EmptyForm ==
    [shown |-> None, users |-> {}, groups |-> {}, staff |-> {},
     term |-> Everyone, loading |-> FALSE, loadError |-> FALSE,
     searching |-> FALSE, searchError |-> FALSE]

AssignInit ==
    /\ ticketID = None /\ form = EmptyForm /\ userTimer = None
    /\ loadSequence = 0 /\ userSearchSequence = 0
    /\ lookups = {} /\ assigning = None /\ signedOut = FALSE /\ acts = 0

----------------------------------------------------------------------------
\* A user is in one of the groups, if there are any.
InGroups(groups) == {u \in Users : groups = {} \/ HomeOf[u] \in groups}

\* lookupUsersForDepartments: the matching active users of the groups.
LookupUsers(groups, term) == Found[term] \cap InGroups(groups)

\* mergeUserOptions: current assignees are kept among the options.
MergeUserOptions(found, ticket, groups) ==
    found \cup (IF ticket = None THEN {}
                ELSE Assigned[ticket].users \cap InGroups(groups))

VisibleUsers == form.users \cap InGroups(form.groups)

\* The form is on the screen, with its controls.
FormShown ==
    ticketID # None /\ ~form.loading /\ ~form.loadError /\ form.shown # None

\* The list of users is, instead of a notice.
UsersShown == FormShown /\ ~form.searching /\ ~form.searchError

\* Slip: the sequence is not compared.
IsLoadOfTicket(c) == ticketID = c.ticket

IsCurrentLoad(c) == ticketID = c.ticket /\ loadSequence = c.seq

\* Slip: the sequence is not compared.
IsSearchOfDialog(c) == ticketID # None

IsCurrentSearch(c) == c.seq = userSearchSequence /\ ticketID # None

LoadCall(t, seq) == [op |-> "load", ticket |-> t, seq |-> seq]
SearchCall(groups, term, seq) ==
    [op |-> "search", groups |-> groups, term |-> term, seq |-> seq]

UserActs == acts < MaxClicks /\ ~signedOut /\ acts' = acts + 1

----------------------------------------------------------------------------
\* Clicks and keystrokes

\* For a ticket, or, by keyboard, for another one than before.
OpenDialog(t) ==
    /\ UserActs /\ ticketID # t
    /\ ticketID' = t
    /\ form' = [EmptyForm EXCEPT !.loading = TRUE]
    /\ userTimer' = None
    /\ loadSequence' = loadSequence + 1
    /\ userSearchSequence' = userSearchSequence + 1
    /\ lookups' = lookups \cup {LoadCall(t, loadSequence + 1)}
    /\ UNCHANGED <<assigning, signedOut>>

\* The page's closeAssignDialog.  By keyboard the user reaches the page behind
\* the dialog, whose chat closes the dialog even while it saves.
CloseAssignDialog ==
    /\ UserActs /\ ticketID # None
    /\ ticketID' = None
    /\ UNCHANGED <<form, userTimer, loadSequence, userSearchSequence, lookups,
                   assigning, signedOut>>

HandleClose == assigning = None /\ CloseAssignDialog

RetryLoad ==
    /\ UserActs /\ ticketID # None /\ form.loadError /\ ~form.loading
    /\ form' = [form EXCEPT !.loading = TRUE, !.loadError = FALSE]
    /\ loadSequence' = loadSequence + 1
    /\ lookups' = lookups \cup {LoadCall(ticketID, loadSequence + 1)}
    /\ UNCHANGED <<ticketID, userTimer, userSearchSequence, assigning, signedOut>>

\* The search for the selected groups starts at once; a delayed one stays.
RefreshUsers(groups) ==
    /\ form' = [form EXCEPT !.groups = groups, !.searching = TRUE,
                            !.searchError = FALSE]
    /\ userSearchSequence' = userSearchSequence + 1
    /\ lookups' =
          lookups \cup {SearchCall(groups, form.term, userSearchSequence + 1)}
    /\ UNCHANGED <<ticketID, userTimer, loadSequence, assigning, signedOut>>

\* A chip of a selected group also works while the assignment is sent.
ToggleDepartment(d) ==
    /\ UserActs /\ FormShown
    /\ assigning = None \/ d \in form.groups
    /\ RefreshUsers(IF d \in form.groups THEN form.groups \ {d}
                                         ELSE form.groups \cup {d})

\* All groups that the search for groups leaves in the list.
SelectVisibleDepartments(visible) ==
    /\ UserActs /\ FormShown /\ assigning = None /\ visible # {}
    /\ RefreshUsers(form.groups \cup visible)

ClearDepartments ==
    /\ UserActs /\ FormShown /\ assigning = None /\ form.groups # {}
    /\ RefreshUsers({})

RetryUserSearch ==
    /\ UserActs /\ FormShown /\ form.searchError /\ ~form.searching
    /\ RefreshUsers(form.groups)

\* toggleUser needs the list; selectVisibleUsers and clearUsers also work
\* while a notice stands in its place.
SelectUsers ==
    /\ UserActs /\ FormShown /\ assigning = None
    /\ \/ /\ UsersShown
          /\ \E u \in VisibleUsers :
                form' = [form EXCEPT !.staff =
                           IF u \in @ THEN @ \ {u} ELSE @ \cup {u}]
       \/ form' = [form EXCEPT !.staff = @ \cup VisibleUsers]
       \/ form' = [form EXCEPT !.staff = {}]
    /\ UNCHANGED <<ticketID, userTimer, loadSequence, userSearchSequence,
                   lookups, assigning, signedOut>>

ScheduleUserSearch(term) ==
    /\ UserActs /\ FormShown /\ assigning = None /\ term # form.term
    /\ form' = [form EXCEPT !.term = term, !.searching = TRUE,
                            !.searchError = FALSE]
    /\ userSearchSequence' = userSearchSequence + 1
    /\ userTimer' = [groups |-> form.groups, seq |-> userSearchSequence + 1]
    /\ UNCHANGED <<ticketID, loadSequence, lookups, assigning, signedOut>>

SubmitAssignment ==
    /\ UserActs /\ FormShown /\ assigning = None
    /\ assigning' = [ticket |-> ticketID, departments |-> form.groups,
                     users |-> form.staff]
    /\ UNCHANGED <<ticketID, form, userTimer, loadSequence,
                   userSearchSequence, lookups, signedOut>>

----------------------------------------------------------------------------
\* Timer and answers

SearchTimerFires ==
    /\ userTimer # None /\ ~signedOut
    /\ userTimer' = None
    /\ lookups' = lookups
         \cup {SearchCall(userTimer.groups, form.term, userTimer.seq)}
    /\ UNCHANGED <<ticketID, form, loadSequence, userSearchSequence,
                   assigning, signedOut, acts>>

\* Ticket and groups arrived: the users of its groups are asked for.  Or the
\* calls failed, or the session has ended and the login page is next.
LoadAnswered(c) ==
    /\ c.op = "load"
    /\ \/ /\ lookups' = (lookups \ {c}) \cup
               (IF IsCurrentLoad(c) THEN {[c EXCEPT !.op = "load users"]} ELSE {})
          /\ UNCHANGED <<form, signedOut>>
       \/ /\ lookups' = lookups \ {c}
          /\ form' = IF IsCurrentLoad(c)
                       THEN [form EXCEPT !.loadError = TRUE, !.loading = FALSE]
                       ELSE form
          /\ UNCHANGED signedOut
       \/ /\ IsCurrentLoad(c)
          /\ lookups' = lookups \ {c} /\ signedOut' = TRUE
          /\ UNCHANGED form

\* What the form shows once the load of c is complete, with these users.
Filled(c, found, searchError) ==
    LET groups == Assigned[c.ticket].departments
    IN  [form EXCEPT !.shown = c.ticket, !.loading = FALSE,
                     !.groups = groups, !.staff = Assigned[c.ticket].users,
                     !.users = MergeUserOptions(found, c.ticket, groups),
                     !.searchError = searchError]

\* The users of the ticket's groups arrived, or failed: the failure is noted
\* before anyone asks whether the load is still the current one.
LoadUsersAnswered(c) ==
    /\ c.op = "load users" /\ lookups' = lookups \ {c}
    /\ \/ /\ form' = IF IsCurrentLoad(c)
                       THEN Filled(c, LookupUsers(Assigned[c.ticket].departments,
                                                  Everyone), form.searchError)
                       ELSE form
          /\ UNCHANGED signedOut
       \/ /\ form' = IF IsCurrentLoad(c) THEN Filled(c, {}, TRUE)
                                         ELSE [form EXCEPT !.searchError = TRUE]
          /\ UNCHANGED signedOut
       \/ signedOut' = TRUE /\ UNCHANGED form

\* Only the latest search counts, and only while the dialog is open.
UserSearchAnswered(c) ==
    /\ c.op = "search" /\ lookups' = lookups \ {c}
    /\ LET counts == IsCurrentSearch(c)
           idle == [form EXCEPT !.searching = @ /\ c.seq # userSearchSequence]
       IN  \/ /\ form' = IF counts
                           THEN [idle EXCEPT !.users =
                                   MergeUserOptions(LookupUsers(c.groups, c.term),
                                                    form.shown, c.groups)]
                           ELSE idle
              /\ UNCHANGED signedOut
           \/ /\ form' = IF counts THEN [idle EXCEPT !.searchError = TRUE] ELSE idle
              /\ UNCHANGED signedOut
           \/ counts /\ signedOut' = TRUE /\ UNCHANGED form

LookupAnswered ==
    /\ ~signedOut
    /\ \E c \in lookups :
          LoadAnswered(c) \/ LoadUsersAnswered(c) \/ UserSearchAnswered(c)
    /\ UNCHANGED <<ticketID, userTimer, loadSequence, userSearchSequence,
                   assigning, acts>>

\* A successful assignment closes the dialog, whichever ticket it shows by now.
AssignAnswered ==
    /\ assigning # None /\ ~signedOut
    /\ assigning' = None
    /\ ticketID' \in {None, ticketID} /\ signedOut' \in BOOLEAN
    /\ signedOut' => ticketID' = ticketID
    /\ UNCHANGED <<form, userTimer, loadSequence, userSearchSequence,
                   lookups, acts>>

----------------------------------------------------------------------------
AssignUser ==
    \/ \E t \in Tickets : OpenDialog(t)
    \/ \E d \in Departments : ToggleDepartment(d)
    \/ \E visible \in SUBSET Departments : SelectVisibleDepartments(visible)
    \/ \E term \in Terms : ScheduleUserSearch(term)
    \/ HandleClose \/ CloseAssignDialog \/ RetryLoad \/ ClearDepartments \/ RetryUserSearch
    \/ SelectUsers \/ SubmitAssignment

AssignWaits == SearchTimerFires \/ LookupAnswered \/ AssignAnswered

AssignNext == AssignUser \/ AssignWaits

----------------------------------------------------------------------------
\* The list offers exactly the users that match what the form says: the text
\* in the search field and the selected groups, with the assignees of the
\* ticket the dialog is open for; and the form is that ticket's, so the
\* selection that is sent belongs to the ticket it is sent for.
OfferMatchesFilters ==
    /\ FormShown => form.shown = ticketID
    /\ UsersShown =>
          VisibleUsers = (Found[form.term] \cup Assigned[form.shown].users)
                           \cap InGroups(form.groups)

\* Only the user changes the selection.  An answer does it once, when the
\* load of the ticket completes, and never while the form is on the screen.
SelectionIsTheUsers ==
    [][FormShown /\ FormShown' /\ acts' = acts
       => form'.groups = form.groups /\ form'.staff = form.staff]_assignVars

\* Nothing is under way any more, and the dialog waits for the user.
AssignSettled ==
    \/ signedOut
    \/ /\ lookups = {} /\ userTimer = None /\ assigning = None
       /\ ticketID # None => ~form.loading /\ ~form.searching
============================================================================
