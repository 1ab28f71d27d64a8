--------------------------- MODULE RequestDialog ---------------------------
(***************************************************************************)
(* The dialog that creates a request                                       *)
(* (frontend/src/lib/components/NewRequestDialog.svelte): it loads groups  *)
(* and locations whenever it opens, lets the user search a location with a *)
(* delay, select one or none, and sends the request.  Only the location    *)
(* and the state of the calls are kept; the other fields answer nobody.    *)
(*                                                                         *)
(* The component stays mounted, so calls and timer outlive a closing.  A   *)
(* load carries no sequence number: all loads in flight are alike.         *)
(***************************************************************************)
EXTENDS Naturals

CONSTANTS
    Locations,     \* active locations, each under its name
    Queries,       \* what the location field can say, names included
    Blank,         \* the empty query
    Matches,       \* per query, the locations the server finds
    MaxInputs      \* bound: clicks and keystrokes of the user

ASSUME LocationsAreGiven ==
    /\ Blank \in Queries \ Locations /\ Locations \subseteq Queries
    /\ Matches \in [Queries -> SUBSET Locations]
    /\ Matches[Blank] = Locations

VARIABLES
    requestOpen,   \* the dialog is on the screen
    lookupState,   \* of the loads: loading, error
    loads,         \* how many of them are in flight
    picker,        \* the location field and its list
    locationTimer, \* the delayed search, as a set
    locationRequestSequence,
    searches,      \* location searches in flight
    creating,      \* the request is being created
    leftForLogin,  \* the page was left for the login page
    inputs         \* clicks and keystrokes so far

requestVars == <<requestOpen, lookupState, loads, picker, locationTimer,
                 locationRequestSequence, searches, creating, leftForLogin, inputs>>

\* id is Blank while no location is selected.  The field from is a history that
\* no guard reads: whose answer the list holds.
EmptyPicker == [id |-> Blank, query |-> Blank, open |-> FALSE, loading |-> FALSE,
                error |-> FALSE, locations |-> {}, value |-> Blank,
                from |-> "nothing"]

RequestInit ==
    /\ requestOpen = FALSE /\ lookupState = [loading |-> FALSE, error |-> FALSE]
    /\ loads = 0 /\ picker = EmptyPicker /\ locationTimer = {}
    /\ locationRequestSequence = 0 /\ searches = {}
    /\ creating = FALSE /\ leftForLogin = FALSE /\ inputs = 0

----------------------------------------------------------------------------
FieldsShown == requestOpen /\ ~lookupState.loading /\ ~lookupState.error

ResultsShown == FieldsShown /\ picker.open /\ ~picker.loading /\ ~picker.error

\* Slip: any answer is taken.
AnyRequest(c) == TRUE

IsLatestRequest(c) == c.seq = locationRequestSequence

Input == inputs < MaxInputs /\ ~leftForLogin /\ inputs' = inputs + 1

Field == Input /\ FieldsShown /\ ~creating

LoadLookups ==
    /\ loads' = loads + 1
    /\ lookupState' = [loading |-> TRUE, error |-> FALSE]

\* A search begins: what an earlier one found is taken away.
Searching(p) == [p EXCEPT !.error = FALSE, !.loading = TRUE, !.locations = {},
                          !.from = "nothing"]

\* scheduleLocationSearch, for a picker that says p.
ScheduleLocationSearch(p, q) ==
    /\ picker' = Searching(p)
    /\ locationRequestSequence' = locationRequestSequence + 1
    /\ locationTimer' = {[query |-> q, seq |-> locationRequestSequence + 1]}

\* Slip: the search that was cut off still counts as loading.
KeepSearching ==
    /\ picker' = [picker EXCEPT !.id = Blank, !.query = Blank, !.open = FALSE,
                                !.error = FALSE]
    /\ locationRequestSequence' = locationRequestSequence + 1
    /\ locationTimer' = {}

\* clearLocation: answers of earlier searches do not count any more.
ClearLocation ==
    /\ picker' = [picker EXCEPT !.id = Blank, !.query = Blank, !.open = FALSE,
                                !.error = FALSE, !.loading = FALSE]
    /\ locationRequestSequence' = locationRequestSequence + 1
    /\ locationTimer' = {}

----------------------------------------------------------------------------
\* Clicks and keystrokes

\* The page's button is disabled until a creation has reloaded the list.
OpenRequest ==
    /\ Input /\ ~requestOpen /\ ~creating
    /\ requestOpen' = TRUE /\ LoadLookups
    /\ UNCHANGED <<picker, locationTimer, locationRequestSequence, searches,
                   creating, leftForLogin>>

RetryLookups ==
    /\ Input /\ requestOpen /\ ~lookupState.loading /\ lookupState.error
    /\ LoadLookups
    /\ UNCHANGED <<requestOpen, picker, locationTimer, locationRequestSequence,
                   searches, creating, leftForLogin>>

HandleCancel ==
    /\ Input /\ requestOpen /\ ~creating
    /\ ClearLocation
    /\ requestOpen' = FALSE
    /\ UNCHANGED <<lookupState, loads, searches, creating, leftForLogin>>

PickerOnly ==
    UNCHANGED <<requestOpen, lookupState, loads, searches, creating, leftForLogin>>

\* An empty field searches again, unless its list is from an empty search.
OpenLocationPicker ==
    /\ Field /\ PickerOnly
    /\ LET opened == [picker EXCEPT !.open = TRUE]
       IN  IF picker.id = Blank /\ picker.query = Blank /\ picker.value # Blank
           THEN ScheduleLocationSearch(opened, Blank)
           ELSE /\ ~picker.open /\ picker' = opened
                /\ UNCHANGED <<locationTimer, locationRequestSequence>>

\* Other text than the selected location's name takes the selection away.
Typed(q) == [picker EXCEPT !.query = q, !.open = TRUE,
                           !.id = IF @ = q THEN @ ELSE Blank]

HandleLocationInput(q) ==
    /\ Field /\ q # picker.query /\ PickerOnly
    /\ ScheduleLocationSearch(Typed(q), q)

RetryLocationSearch ==
    /\ Input /\ FieldsShown /\ picker.open /\ picker.error /\ ~picker.loading
    /\ picker' = Searching(picker)
    /\ locationRequestSequence' = locationRequestSequence + 1
    /\ searches' = searches \cup
          {[query |-> picker.query, seq |-> locationRequestSequence + 1]}
    /\ UNCHANGED <<requestOpen, lookupState, loads, locationTimer, creating,
                   leftForLogin>>

\* By mouse from the list, even while the request is sent; or by Enter, which
\* also reaches a list that an error notice hides.
SelectLocation(l) ==
    /\ Input /\ FieldsShown /\ picker.open /\ ~picker.loading
    /\ l \in picker.locations /\ ~(creating /\ picker.error)
    /\ picker' = [picker EXCEPT !.id = l, !.query = l, !.open = FALSE,
                                !.error = FALSE]
    /\ PickerOnly
    /\ UNCHANGED <<locationTimer, locationRequestSequence>>

ChooseNoLocation ==
    /\ Input /\ FieldsShown /\ picker.open /\ ClearLocation /\ PickerOnly

Escape ==
    /\ Field /\ picker.open /\ picker' = [picker EXCEPT !.open = FALSE]
    /\ PickerOnly
    /\ UNCHANGED <<locationTimer, locationRequestSequence>>

SubmitRequest ==
    /\ Field /\ creating' = TRUE
    /\ UNCHANGED <<requestOpen, lookupState, loads, picker, locationTimer,
                   locationRequestSequence, searches, leftForLogin>>

----------------------------------------------------------------------------
\* Timer and answers

LocationTimerFires ==
    /\ locationTimer # {} /\ ~leftForLogin
    /\ searches' = searches \cup locationTimer /\ locationTimer' = {}
    /\ UNCHANGED <<requestOpen, lookupState, loads, picker,
                   locationRequestSequence, creating, leftForLogin, inputs>>

LookupsAnswered ==
    /\ loads > 0 /\ ~leftForLogin /\ loads' = loads - 1
    /\ \/ /\ picker' = [picker EXCEPT !.locations = Matches[Blank], !.from = "load"]
          /\ lookupState' = [lookupState EXCEPT !.loading = FALSE]
          /\ UNCHANGED leftForLogin
       \/ /\ lookupState' = [loading |-> FALSE, error |-> TRUE]
          /\ UNCHANGED <<picker, leftForLogin>>
       \/ leftForLogin' = TRUE /\ UNCHANGED <<picker, lookupState>>
    /\ UNCHANGED <<requestOpen, locationTimer, locationRequestSequence,
                   searches, creating, inputs>>

LocationSearchAnswered(c) ==
    /\ c \in searches /\ ~leftForLogin /\ searches' = searches \ {c}
    /\ IF ~IsLatestRequest(c)
       THEN UNCHANGED <<picker, leftForLogin>>
       ELSE \/ /\ picker' = [picker EXCEPT !.locations = Matches[c.query],
                                           !.value = c.query, !.loading = FALSE,
                                           !.from = "search"]
               /\ UNCHANGED leftForLogin
            \/ /\ picker' = [picker EXCEPT !.error = TRUE, !.loading = FALSE]
               /\ UNCHANGED leftForLogin
            \/ leftForLogin' = TRUE /\ UNCHANGED picker
    /\ UNCHANGED <<requestOpen, lookupState, loads, locationTimer,
                   locationRequestSequence, creating, inputs>>

\* A created request empties and closes the dialog.
CreateAnswered ==
    /\ creating /\ ~leftForLogin /\ creating' = FALSE
    /\ \/ ClearLocation /\ requestOpen' = FALSE /\ UNCHANGED leftForLogin
       \/ /\ leftForLogin' \in BOOLEAN
          /\ UNCHANGED <<picker, locationTimer, locationRequestSequence, requestOpen>>
    /\ UNCHANGED <<lookupState, loads, searches, inputs>>

----------------------------------------------------------------------------
RequestUser ==
    \/ OpenRequest \/ RetryLookups \/ HandleCancel \/ OpenLocationPicker
    \/ \E q \in Queries : HandleLocationInput(q)
    \/ \E l \in Locations : SelectLocation(l)
    \/ RetryLocationSearch \/ ChooseNoLocation \/ Escape \/ SubmitRequest

RequestWaits ==
    \/ LocationTimerFires \/ LookupsAnswered \/ CreateAnswered
    \/ \E c \in searches : LocationSearchAnswered(c)

RequestNext == RequestUser \/ RequestWaits

----------------------------------------------------------------------------
\* The location that will be sent is the one the field names.  And while the
\* results are shown, they are what the last answer says: a search shows what
\* it found for the text that is in the field now, and a load all locations.
\* Without an answer the list is empty, and only with an empty field: typed
\* text never says that there is nothing before its search has answered.
LocationFieldIsTrue ==
    /\ picker.id # Blank => picker.query = picker.id
    /\ ResultsShown /\ picker.id = Blank =>
          \/ picker.from = "search" /\ picker.locations = Matches[picker.query]
          \/ picker.from = "load" /\ picker.locations = Matches[Blank]
          \/ picker.from = "nothing" /\ picker.locations = {} /\ picker.query = Blank

\* The results are those of the text in the field: all active locations
\* without a text (SPEC-06.6:74-78), and never a stale answer in the place of
\* a newer one (SPEC-06.6:319).
ListAnswersTheText ==
    ResultsShown /\ picker.id = Blank => picker.locations = Matches[picker.query]

\* Nothing is under way any more, and the dialog waits for the user.
RequestSettled ==
    \/ leftForLogin
    \/ /\ loads = 0 /\ locationTimer = {} /\ searches = {} /\ ~creating
       /\ ~lookupState.loading /\ ~picker.loading
============================================================================
