---------------------------- MODULE DialogsProofs ----------------------------
(***************************************************************************)
(* Both dialogs show the answers to what they say, in whatever order calls *)
(* are answered: OfferMatchesFilters, SelectionIsTheUsers and              *)
(* LocationFieldIsTrue, for every directory and any number of clicks.      *)
(*                                                                         *)
(* The argument is the same for both.  A sequence number belongs to one    *)
(* call, so the latest search is the only one whose answer counts; as long *)
(* as it is under way, what it asks for is what the form says; and the     *)
(* form says so ("searching", "loading") and does not show a list.         *)
(***************************************************************************)
EXTENDS Dialogs, TLAPS

-----------------------------------------------------------------------------
(* The invariant of the assignment dialog.                                 *)

LoadCalls   == [op : {"load", "load users"}, ticket : Tickets, seq : Nat]
SearchCalls == [op : {"search"}, groups : SUBSET Departments, term : Terms, seq : Nat]
Timers      == [groups : SUBSET Departments, seq : Nat]

Form ==
    [shown : Tickets \cup {None}, users : SUBSET Users, groups : SUBSET Departments,
     staff : SUBSET Users, term : Terms, loading : BOOLEAN, loadError : BOOLEAN,
     searching : BOOLEAN, searchError : BOOLEAN]

AssignTypeOK ==
    /\ ticketID \in Tickets \cup {None}
    /\ form \in Form
    /\ userTimer \in Timers \cup {None}
    /\ loadSequence \in Nat /\ userSearchSequence \in Nat
    /\ lookups \subseteq LoadCalls \cup SearchCalls

Loads        == {c \in lookups : c.op # "search"}
UserSearches == {c \in lookups : c.op = "search"}

\* A load has a number of its own, and the current one is being waited for.
LoadsAreNumbered ==
    /\ \A c \in Loads : c.seq <= loadSequence /\ (IsCurrentLoad(c) => form.loading)
    /\ \A c, d \in Loads : c.seq = d.seq => c = d

\* So has a search, sent or delayed.
SearchesAreNumbered ==
    /\ \A c \in UserSearches : c.seq <= userSearchSequence
    /\ \A c, d \in UserSearches : c.seq = d.seq => c = d
    /\ userTimer # None =>
          /\ userTimer.seq <= userSearchSequence
          /\ \A c \in UserSearches : c.seq # userTimer.seq

\* While the latest search is under way, it asks for what the form says.
LatestSearchIsAwaited ==
    /\ \A c \in UserSearches : IsCurrentSearch(c) =>
          FormShown /\ form.searching /\ c.groups = form.groups /\ c.term = form.term
    /\ userTimer # None /\ IsCurrentSearch(userTimer) =>
          FormShown /\ form.searching /\ userTimer.groups = form.groups

\* Until the form is shown, nothing has been typed into it.
FormBelongsToTicket ==
    ticketID # None =>
        /\ form.shown \in {None, ticketID}
        /\ ~FormShown => form.term = Everyone

AssignInvariant ==
    /\ AssignTypeOK
    /\ LoadsAreNumbered
    /\ SearchesAreNumbered
    /\ LatestSearchIsAwaited
    /\ FormBelongsToTicket
    /\ OfferMatchesFilters

-----------------------------------------------------------------------------
(* The invariant of the request dialog.                                    *)

Picker ==
    [id : Locations \cup {Blank}, query : Queries, open : BOOLEAN, loading : BOOLEAN,
     error : BOOLEAN, locations : SUBSET Locations, value : Queries,
     from : {"search", "load", "nothing"}]

LocationSearches == [query : Queries, seq : Nat]

RequestTypeOK ==
    /\ picker \in Picker
    /\ locationTimer \subseteq LocationSearches
    /\ searches \subseteq LocationSearches
    /\ locationRequestSequence \in Nat

\* Sent or delayed, a search has a number of its own; while the latest one is
\* under way the list is loading, and it asks for what the field says.
LocationSearchesAreNumbered ==
    /\ \A c, d \in searches \cup locationTimer : c.seq = d.seq => c = d
    /\ searches \cap locationTimer = {}
    /\ \A c \in searches \cup locationTimer :
          /\ c.seq <= locationRequestSequence
          /\ IsLatestRequest(c) => picker.loading /\ c.query = picker.query

\* What the list holds is what the answer it is from says.
ListIsAnAnswer ==
    /\ picker.from = "search" => picker.locations = Matches[picker.value]
    /\ picker.from = "load" => picker.locations = Matches[Blank]
    /\ picker.from = "nothing" => picker.locations = {}

\* With no search under way, a found list is for the text of the field, and no
\* list is there for a text.  A field that was cleared keeps the last answer
\* until its list is opened again.
ListFitsTheField ==
    picker.id = Blank /\ ~picker.loading /\ ~picker.error =>
        /\ picker.from = "search" /\ (picker.open \/ picker.query # Blank) =>
              picker.value = picker.query
        /\ picker.from = "nothing" => picker.query = Blank

RequestInvariant ==
    /\ RequestTypeOK
    /\ LocationSearchesAreNumbered
    /\ ListIsAnAnswer /\ ListFitsTheField
    /\ picker.id # Blank => picker.query = picker.id

-----------------------------------------------------------------------------
(* The request dialog: the kinds of steps it takes.                        *)

LEMMA LocationsKnown ==
    /\ Blank \in Queries /\ Blank \notin Locations /\ Locations \subseteq Queries
    /\ \A q \in Queries : Matches[q] \in SUBSET Locations
BY LocationsAreGiven

LEMMA SearchingIs ==
    ASSUME NEW p \in Picker
    PROVE  /\ Searching(p) \in Picker
           /\ Searching(p).loading /\ Searching(p).locations = {}
           /\ Searching(p).id = p.id /\ Searching(p).query = p.query
           /\ Searching(p).value = p.value /\ Searching(p).from = "nothing"
<1> DEFINE q == Searching(p)
<1>1. q = [id |-> p.id, query |-> p.query, open |-> p.open, loading |-> TRUE,
           error |-> FALSE, locations |-> {}, value |-> p.value, from |-> "nothing"]
  <2> DEFINE none == {}
  <2>1. Searching(p) = [p EXCEPT !.error = FALSE, !.loading = TRUE, !.locations = none,
                                !.from = "nothing"]
    BY DEF Searching
  <2> HIDE DEF none
  <2>2. Searching(p) = [id |-> p.id, query |-> p.query, open |-> p.open, loading |-> TRUE,
                        error |-> FALSE, locations |-> none, value |-> p.value,
                        from |-> "nothing"]
    BY <2>1 DEF Picker
  <2> QED
    BY <2>2 DEF none
<1>2. /\ p.id \in Locations \cup {Blank} /\ p.query \in Queries /\ p.open \in BOOLEAN
      /\ p.value \in Queries /\ {} \in SUBSET Locations
  BY DEF Picker
<1> HIDE DEF q
<1>3. q \in Picker
  BY <1>1, <1>2 DEF Picker
<1>4. q.loading
  BY <1>1
<1>5. q.locations = {} /\ q.id = p.id /\ q.query = p.query /\ q.value = p.value
      /\ q.from = "nothing"
  BY <1>1
<1> QED
  BY <1>3, <1>4, <1>5 DEF q

\* Calls, timer and field as they were.
LEMMA PickerUntouched ==
    ASSUME RequestInvariant,
           UNCHANGED <<picker, locationTimer, locationRequestSequence, searches>>
    PROVE  RequestInvariant'
BY DEF RequestInvariant, RequestTypeOK, LocationSearchesAreNumbered, IsLatestRequest,
       ListIsAnAnswer, ListFitsTheField

\* Cut off, an earlier search is not the latest any more.
LEMMA ClearLocationKeeps ==
    ASSUME RequestInvariant, ClearLocation, searches' = searches
    PROVE  RequestInvariant'
<1>1. RequestTypeOK'
  <2>1. picker \in Picker
    BY DEF RequestInvariant, RequestTypeOK
  <2>2. picker' = [id |-> Blank, query |-> Blank, open |-> FALSE, loading |-> FALSE,
                   error |-> FALSE, locations |-> picker.locations,
                   value |-> picker.value, from |-> picker.from]
    BY <2>1 DEF ClearLocation, Picker
  <2>3. picker' \in Picker
    BY <2>1, <2>2, LocationsKnown DEF Picker
  <2> QED
    BY <2>3 DEF RequestInvariant, RequestTypeOK, ClearLocation
<1>2. LocationSearchesAreNumbered'
  BY DEF RequestInvariant, RequestTypeOK, ClearLocation, LocationSearchesAreNumbered,
         LocationSearches, IsLatestRequest
<1>3. /\ ListIsAnAnswer' /\ ListFitsTheField'
      /\ picker'.id # Blank => picker'.query = picker'.id
  BY DEF RequestInvariant, RequestTypeOK, ClearLocation, ListIsAnAnswer,
         ListFitsTheField, Picker
<1> QED
  BY <1>1, <1>2, <1>3 DEF RequestInvariant

\* A delayed search for the text of the field replaces every earlier one.
LEMMA ScheduleLocationSearchKeeps ==
    ASSUME RequestInvariant, searches' = searches,
           NEW p \in Picker, p.id # Blank => p.query = p.id,
           p.value = picker.value,
           ScheduleLocationSearch(p, p.query)
    PROVE  RequestInvariant'
<1>1. RequestTypeOK'
  <2>1. picker' \in Picker /\ p.query \in Queries
    BY SearchingIs DEF ScheduleLocationSearch, Picker
  <2> QED
    BY <2>1 DEF RequestInvariant, RequestTypeOK, ScheduleLocationSearch, LocationSearches
<1>2. LocationSearchesAreNumbered'
  <2>1. /\ locationTimer' = {[query |-> p.query, seq |-> locationRequestSequence + 1]}
        /\ locationRequestSequence' = locationRequestSequence + 1
        /\ picker'.loading /\ picker'.query = p.query
    BY SearchingIs DEF ScheduleLocationSearch
  <2>2. \A c \in searches : c.seq \in Nat /\ c.seq <= locationRequestSequence
    BY DEF RequestInvariant, RequestTypeOK, LocationSearches, LocationSearchesAreNumbered
  <2>3. locationRequestSequence \in Nat
    BY DEF RequestInvariant, RequestTypeOK
  <2> QED
    BY <2>1, <2>2, <2>3 DEF RequestInvariant, LocationSearchesAreNumbered, IsLatestRequest
<1>3. /\ ListIsAnAnswer' /\ ListFitsTheField'
      /\ picker'.id # Blank => picker'.query = picker'.id
  BY SearchingIs DEF ScheduleLocationSearch, ListIsAnAnswer, ListFitsTheField
<1> QED
  BY <1>1, <1>2, <1>3 DEF RequestInvariant

\* The list of the field opens or closes.
LEMMA OpeningKeeps ==
    ASSUME RequestInvariant, OpenLocationPicker \/ Escape
    PROVE  RequestInvariant'
<1>1. picker \in Picker /\ searches' = searches
  BY DEF RequestInvariant, RequestTypeOK, OpenLocationPicker, Escape, PickerOnly
<1>2. CASE ScheduleLocationSearch([picker EXCEPT !.open = TRUE], Blank)
           /\ picker.id = Blank /\ picker.query = Blank
  <2> DEFINE p == [picker EXCEPT !.open = TRUE]
  <2>1. p \in Picker /\ p.query = Blank /\ p.id = Blank /\ p.value = picker.value
    BY <1>1, <1>2 DEF Picker
  <2>2. ScheduleLocationSearch(p, p.query)
    BY <1>2, <2>1
  <2> HIDE DEF p
  <2> QED
    BY <1>1, <2>1, <2>2, ScheduleLocationSearchKeeps
<1>3. CASE /\ \E b \in BOOLEAN : /\ picker' = [picker EXCEPT !.open = b]
                                 /\ b /\ picker.id = Blank /\ picker.query = Blank
                                       => picker.value = Blank
           /\ UNCHANGED <<locationTimer, locationRequestSequence>>
  <2>1. RequestTypeOK'
    BY <1>1, <1>3 DEF RequestInvariant, RequestTypeOK, Picker
  <2>2. LocationSearchesAreNumbered'
    BY <1>1, <1>3 DEF RequestInvariant, RequestTypeOK, Picker, LocationSearchesAreNumbered,
                      IsLatestRequest
  <2>3. /\ ListIsAnAnswer' /\ ListFitsTheField'
        /\ picker'.id # Blank => picker'.query = picker'.id
    BY <1>1, <1>3 DEF RequestInvariant, ListIsAnAnswer, ListFitsTheField, Picker
  <2> QED
    BY <2>1, <2>2, <2>3 DEF RequestInvariant
<1> QED
  BY <1>2, <1>3 DEF OpenLocationPicker, Escape

LEMMA HandleLocationInputKeeps ==
    ASSUME RequestInvariant, NEW q \in Queries, HandleLocationInput(q)
    PROVE  RequestInvariant'
<1> DEFINE p == Typed(q)
<1>1. /\ p \in Picker /\ p.query = q /\ p.value = picker.value
      /\ p.id # Blank => p.query = p.id
  BY LocationsKnown DEF Typed, Picker, RequestInvariant, RequestTypeOK
<1>2. ScheduleLocationSearch(p, p.query) /\ searches' = searches
  BY <1>1 DEF HandleLocationInput, PickerOnly
<1> HIDE DEF p
<1> QED
  BY <1>1, <1>2, ScheduleLocationSearchKeeps

\* A retry leaves an older, delayed search behind, whose answer will not count.
LEMMA RetryLocationSearchKeeps ==
    ASSUME RequestInvariant, RetryLocationSearch
    PROVE  RequestInvariant'
<1> DEFINE call == [query |-> picker.query, seq |-> locationRequestSequence + 1]
<1>1. /\ picker' = Searching(picker) /\ locationTimer' = locationTimer
      /\ locationRequestSequence' = locationRequestSequence + 1
      /\ searches' = searches \cup {call}
  BY DEF RetryLocationSearch
<1>2. picker \in Picker /\ locationRequestSequence \in Nat
  BY DEF RequestInvariant, RequestTypeOK
<1>3. RequestTypeOK'
  <2>1. picker' \in Picker /\ picker.query \in Queries
    BY <1>1, <1>2, SearchingIs DEF Picker
  <2> QED
    BY <1>1, <1>2, <2>1 DEF RequestInvariant, RequestTypeOK, LocationSearches
<1>4. LocationSearchesAreNumbered'
  <2>1. \A c \in searches \cup locationTimer :
           c.seq \in Nat /\ c.seq <= locationRequestSequence
    BY DEF RequestInvariant, RequestTypeOK, LocationSearches, LocationSearchesAreNumbered
  <2>2. picker'.loading /\ picker'.query = picker.query
    BY <1>1, <1>2, SearchingIs
  <2> QED
    BY <1>1, <1>2, <2>1, <2>2
       DEF RequestInvariant, LocationSearchesAreNumbered, IsLatestRequest
<1>5. /\ ListIsAnAnswer' /\ ListFitsTheField'
      /\ picker'.id # Blank => picker'.query = picker'.id
  BY <1>1, <1>2, SearchingIs DEF RequestInvariant, ListIsAnAnswer, ListFitsTheField
<1> QED
  BY <1>3, <1>4, <1>5 DEF RequestInvariant

\* While the list can be selected from, no search that counts is under way.
LEMMA SelectLocationKeeps ==
    ASSUME RequestInvariant, NEW l \in Locations, SelectLocation(l)
    PROVE  RequestInvariant'
<1>1. /\ picker' = [picker EXCEPT !.id = l, !.query = l, !.open = FALSE, !.error = FALSE]
      /\ ~picker.loading /\ picker \in Picker /\ l \in Queries /\ l # Blank
      /\ UNCHANGED <<locationTimer, locationRequestSequence, searches>>
  BY LocationsKnown DEF SelectLocation, PickerOnly, RequestInvariant, RequestTypeOK
<1>2. RequestTypeOK'
  BY <1>1 DEF RequestInvariant, RequestTypeOK, Picker
<1>3. LocationSearchesAreNumbered'
  BY <1>1 DEF RequestInvariant, LocationSearchesAreNumbered, IsLatestRequest
<1>4. /\ ListIsAnAnswer' /\ ListFitsTheField'
      /\ picker'.id # Blank => picker'.query = picker'.id
  BY <1>1 DEF RequestInvariant, ListIsAnAnswer, ListFitsTheField, Picker
<1> QED
  BY <1>2, <1>3, <1>4 DEF RequestInvariant

LEMMA LocationTimerFiresKeeps ==
    ASSUME RequestInvariant, LocationTimerFires
    PROVE  RequestInvariant'
<1>1. /\ searches' = searches \cup locationTimer /\ locationTimer' = {}
      /\ UNCHANGED <<picker, locationRequestSequence>>
  BY DEF LocationTimerFires
<1> QED
  BY <1>1 DEF RequestInvariant, RequestTypeOK, LocationSearchesAreNumbered, IsLatestRequest,
              ListIsAnAnswer, ListFitsTheField

\* The first, unfiltered list arrives: it may replace what a search found.
LEMMA LookupsAnsweredKeeps ==
    ASSUME RequestInvariant, LookupsAnswered
    PROVE  RequestInvariant'
<1>1. UNCHANGED <<locationTimer, locationRequestSequence, searches>>
  BY DEF LookupsAnswered
<1>2. CASE picker' = picker
  BY <1>1, <1>2, PickerUntouched
<1>3. CASE picker' = [picker EXCEPT !.locations = Matches[Blank], !.from = "load"]
  <2>1. picker \in Picker
    BY DEF RequestInvariant, RequestTypeOK
  <2> QED
    BY <1>1, <1>3, <2>1, LocationsKnown
       DEF RequestInvariant, RequestTypeOK, Picker, LocationSearchesAreNumbered,
           IsLatestRequest, ListIsAnAnswer, ListFitsTheField
<1> QED
  BY <1>2, <1>3 DEF LookupsAnswered

LEMMA LocationSearchAnsweredKeeps ==
    ASSUME RequestInvariant, NEW c \in searches, LocationSearchAnswered(c)
    PROVE  RequestInvariant'
<1>1. /\ searches' = searches \ {c}
      /\ UNCHANGED <<locationTimer, locationRequestSequence>>
      /\ picker \in Picker /\ c \in LocationSearches
  BY DEF LocationSearchAnswered, RequestInvariant, RequestTypeOK
<1>2. CASE picker' = picker
  BY <1>1, <1>2 DEF RequestInvariant, RequestTypeOK, LocationSearchesAreNumbered,
                    IsLatestRequest, ListIsAnAnswer, ListFitsTheField
<1>3. CASE IsLatestRequest(c) /\ picker' # picker
  <2>1. \A d \in searches' \cup locationTimer' : ~IsLatestRequest(d)'
    BY <1>1, <1>3 DEF RequestInvariant, LocationSearchesAreNumbered, IsLatestRequest
  <2>2. c.query = picker.query
    BY <1>3 DEF RequestInvariant, LocationSearchesAreNumbered
  <2>3. LocationSearchesAreNumbered'
    BY <1>1, <2>1 DEF RequestInvariant, LocationSearchesAreNumbered
  <2>4. /\ RequestTypeOK' /\ ListIsAnAnswer' /\ ListFitsTheField'
        /\ picker'.id # Blank => picker'.query = picker'.id
    <3>1. CASE picker' = [picker EXCEPT !.locations = Matches[c.query],
                                        !.value = c.query, !.loading = FALSE,
                                        !.from = "search"]
      BY <1>1, <2>2, <3>1, LocationsKnown
         DEF RequestInvariant, RequestTypeOK, ListIsAnAnswer, ListFitsTheField, Picker,
             LocationSearches
    <3>2. CASE picker' = [picker EXCEPT !.error = TRUE, !.loading = FALSE]
      BY <1>1, <3>2
         DEF RequestInvariant, RequestTypeOK, ListIsAnAnswer, ListFitsTheField, Picker
    <3> QED
      BY <1>3, <3>1, <3>2 DEF LocationSearchAnswered
  <2> QED
    BY <2>3, <2>4 DEF RequestInvariant
<1> QED
  BY <1>2, <1>3 DEF LocationSearchAnswered

LEMMA RequestNextKeeps ==
    ASSUME RequestInvariant, RequestNext \/ UNCHANGED requestVars
    PROVE  RequestInvariant'
<1>1. CASE UNCHANGED requestVars
  BY <1>1, PickerUntouched DEF requestVars
<1>2. CASE OpenRequest \/ RetryLookups \/ SubmitRequest
  BY <1>2, PickerUntouched DEF OpenRequest, RetryLookups, SubmitRequest
<1>3. CASE HandleCancel \/ ChooseNoLocation \/ CreateAnswered
  BY <1>3, ClearLocationKeeps, PickerUntouched
     DEF HandleCancel, ChooseNoLocation, CreateAnswered, PickerOnly
<1> QED
  BY <1>1, <1>2, <1>3, OpeningKeeps, HandleLocationInputKeeps, SelectLocationKeeps,
     RetryLocationSearchKeeps, LocationTimerFiresKeeps, LookupsAnsweredKeeps,
     LocationSearchAnsweredKeeps
     DEF RequestNext, RequestUser, RequestWaits

LEMMA RequestInitEstablishes == RequestInit => RequestInvariant
BY LocationsKnown
   DEF RequestInit, EmptyPicker, RequestInvariant, RequestTypeOK, Picker,
       LocationSearchesAreNumbered, ListIsAnAnswer, ListFitsTheField

\* Whatever is shown is an answer to the field.
LEMMA InvariantShowsTruth == RequestInvariant => LocationFieldIsTrue
<1> SUFFICES ASSUME RequestInvariant
             PROVE  LocationFieldIsTrue
  OBVIOUS
<1>1. picker.id # Blank => picker.query = picker.id
  BY DEF RequestInvariant
<1>2. picker.from \in {"search", "load", "nothing"}
  BY DEF RequestInvariant, RequestTypeOK, Picker
<1>3. ASSUME ResultsShown, picker.id = Blank
      PROVE  /\ picker.from = "search" => picker.value = picker.query
             /\ picker.from = "nothing" => picker.query = Blank
  BY <1>3 DEF RequestInvariant, ListFitsTheField, ResultsShown
<1> QED
  BY <1>1, <1>2, <1>3 DEF RequestInvariant, LocationFieldIsTrue, ListIsAnAnswer

-----------------------------------------------------------------------------
(* The assignment dialog: users and forms.                                 *)

LEMMA DirectoryKnown ==
    /\ Everyone \in Terms /\ None \notin Tickets
    /\ \A t \in Tickets : /\ Assigned[t].users \in SUBSET Users
                          /\ Assigned[t].departments \in SUBSET Departments
    /\ \A term \in Terms : Found[term] \in SUBSET Users
BY DirectoryIsGiven

\* The users fetched for a term and groups are those the form then offers.
LEMMA MergedUsersMatch ==
    ASSUME NEW t \in Tickets, NEW term \in Terms, NEW groups
    PROVE  LET users == MergeUserOptions(LookupUsers(groups, term), t, groups)
           IN  /\ users \in SUBSET Users
               /\ users \cap InGroups(groups)
                    = (Found[term] \cup Assigned[t].users) \cap InGroups(groups)
<1>1. t # None
  BY DirectoryKnown
<1>2. /\ Found[term] \in SUBSET Users /\ Assigned[t].users \in SUBSET Users
  BY DirectoryKnown
<1> QED
  BY <1>1, <1>2 DEF MergeUserOptions, LookupUsers

\* What a step has to keep, named by the parts of the form it depends on.
SameFilters ==
    /\ form'.shown = form.shown /\ form'.users = form.users
    /\ form'.groups = form.groups /\ form'.term = form.term

SameNotices ==
    /\ form'.loading = form.loading /\ form'.loadError = form.loadError
    /\ form'.searching = form.searching /\ form'.searchError = form.searchError

CallsUntouched == UNCHANGED <<userTimer, loadSequence, userSearchSequence, lookups>>

\* The same ticket, or none, and a form that differs in the selection only.
LEMMA SelectionKeeps ==
    ASSUME AssignInvariant, ticketID' \in {ticketID, None}, form' \in Form,
           SameFilters, SameNotices, CallsUntouched
    PROVE  AssignInvariant'
<1>1. AssignTypeOK'
  BY DEF AssignInvariant, AssignTypeOK, CallsUntouched
<1>2. FormShown' <=> ticketID' # None /\ FormShown
  BY DEF FormShown, SameFilters, SameNotices
<1>3. \A c \in Loads : IsCurrentLoad(c)' => IsCurrentLoad(c)
  BY DirectoryKnown DEF IsCurrentLoad, CallsUntouched, Loads, AssignInvariant, AssignTypeOK,
                        LoadCalls, SearchCalls
<1>4. LoadsAreNumbered'
  BY <1>3 DEF AssignInvariant, LoadsAreNumbered, Loads, CallsUntouched, SameNotices
<1>5. SearchesAreNumbered'
  BY DEF AssignInvariant, SearchesAreNumbered, UserSearches, CallsUntouched
<1>6. LatestSearchIsAwaited'
  BY <1>2 DEF AssignInvariant, LatestSearchIsAwaited, UserSearches, CallsUntouched,
              IsCurrentSearch, SameFilters, SameNotices
<1>7. FormBelongsToTicket'
  BY <1>2 DEF AssignInvariant, FormBelongsToTicket, SameFilters
<1>8. OfferMatchesFilters'
  BY <1>2 DEF AssignInvariant, OfferMatchesFilters, UsersShown, VisibleUsers, SameFilters,
              SameNotices
<1> QED
  BY <1>1, <1>4, <1>5, <1>6, <1>7, <1>8 DEF AssignInvariant

LEMMA ClicksKeep ==
    ASSUME AssignInvariant,
           \/ CloseAssignDialog \/ SelectUsers \/ SubmitAssignment \/ AssignAnswered
           \/ UNCHANGED assignVars
    PROVE  AssignInvariant'
<1>1. form \in Form
  BY DEF AssignInvariant, AssignTypeOK
<1>2. CASE form' = form
  BY <1>1, <1>2, SelectionKeeps
     DEF CloseAssignDialog, SelectUsers, SubmitAssignment, AssignAnswered, assignVars,
         SameFilters, SameNotices, CallsUntouched
<1>3. CASE SelectUsers
  <2>1. PICK staff \in SUBSET Users : form' = [form EXCEPT !.staff = staff]
    <3>1. form.staff \in SUBSET Users /\ VisibleUsers \in SUBSET Users
      BY <1>1 DEF Form, VisibleUsers
    <3> QED
      BY <1>3, <3>1 DEF SelectUsers
  <2>2. form' \in Form /\ SameFilters /\ SameNotices
    BY <1>1, <2>1 DEF Form, SameFilters, SameNotices
  <2> QED
    BY <1>3, <2>2, SelectionKeeps DEF SelectUsers, CallsUntouched
<1> QED
  BY <1>2, <1>3 DEF CloseAssignDialog, SubmitAssignment, AssignAnswered, assignVars

-----------------------------------------------------------------------------
(* The assignment dialog: loading.                                         *)

\* While the form is not shown, no search is waited for.
LEMMA NothingSearched ==
    ASSUME AssignInvariant, ticketID # None, ~FormShown
    PROVE  /\ \A c \in UserSearches : c.seq # userSearchSequence
           /\ userTimer # None => userTimer.seq # userSearchSequence
           /\ form.term = Everyone
BY DEF AssignInvariant, LatestSearchIsAwaited, IsCurrentSearch, FormBelongsToTicket

\* A call for the ticket is sent, under a new number.
LEMMA NewLoad ==
    ASSUME AssignInvariant, NEW t \in Tickets, ticketID' = t, form'.loading,
           loadSequence' = loadSequence + 1,
           lookups' = lookups \cup {LoadCall(t, loadSequence + 1)}
    PROVE  /\ LoadsAreNumbered' /\ UserSearches' = UserSearches
           /\ loadSequence' \in Nat /\ lookups' \subseteq LoadCalls \cup SearchCalls
<1> DEFINE new == LoadCall(t, loadSequence + 1)
<1>1. new \in LoadCalls /\ new.op # "search" /\ new.seq = loadSequence + 1
  <2>1. loadSequence + 1 \in Nat
    BY DEF AssignInvariant, AssignTypeOK
  <2>2. new = [op |-> "load", ticket |-> t, seq |-> loadSequence + 1]
    BY DEF LoadCall
  <2> HIDE DEF new
  <2>3. new \in LoadCalls
    BY <2>1, <2>2 DEF LoadCalls
  <2> QED
    BY <2>2, <2>3
<1> HIDE DEF new
<1>2. Loads' = Loads \cup {new} /\ UserSearches' = UserSearches
  BY <1>1 DEF Loads, UserSearches, new
<1>3. \A c \in Loads : c.seq \in Nat /\ c.seq <= loadSequence
  BY DEF AssignInvariant, AssignTypeOK, LoadsAreNumbered, Loads, LoadCalls, SearchCalls
<1>4. loadSequence \in Nat
  BY DEF AssignInvariant, AssignTypeOK
<1>5. LoadsAreNumbered'
  BY <1>1, <1>2, <1>3, <1>4 DEF AssignInvariant, LoadsAreNumbered, IsCurrentLoad
<1> QED
  BY <1>1, <1>2, <1>4, <1>5 DEF AssignInvariant, AssignTypeOK, new

LEMMA OpenDialogKeeps ==
    ASSUME AssignInvariant, NEW t \in Tickets, OpenDialog(t)
    PROVE  AssignInvariant'
<1>1. /\ ticketID' = t /\ userTimer' = None
      /\ loadSequence' = loadSequence + 1
      /\ userSearchSequence' = userSearchSequence + 1
      /\ lookups' = lookups \cup {LoadCall(t, loadSequence + 1)}
  BY DEF OpenDialog
<1>2. form' = [shown |-> None, users |-> {}, groups |-> {}, staff |-> {},
               term |-> Everyone, loading |-> TRUE, loadError |-> FALSE,
               searching |-> FALSE, searchError |-> FALSE]
  BY DEF OpenDialog, EmptyForm
<1>3. form' \in Form /\ form'.loading /\ form'.shown = None /\ form'.term = Everyone
  BY <1>2, DirectoryKnown DEF Form
<1>4. /\ LoadsAreNumbered' /\ UserSearches' = UserSearches
      /\ loadSequence' \in Nat /\ lookups' \subseteq LoadCalls \cup SearchCalls
  BY <1>1, <1>3, NewLoad
<1>5. AssignTypeOK'
  BY <1>1, <1>3, <1>4 DEF AssignInvariant, AssignTypeOK
<1>6. \A c \in UserSearches : c.seq \in Nat /\ c.seq <= userSearchSequence
  BY DEF AssignInvariant, AssignTypeOK, SearchesAreNumbered, UserSearches, LoadCalls,
         SearchCalls
<1>7. userSearchSequence \in Nat
  BY DEF AssignInvariant, AssignTypeOK
<1>8. SearchesAreNumbered' /\ LatestSearchIsAwaited'
  BY <1>1, <1>4, <1>6, <1>7
     DEF AssignInvariant, SearchesAreNumbered, LatestSearchIsAwaited, IsCurrentSearch
<1>9. FormBelongsToTicket' /\ OfferMatchesFilters'
  BY <1>3 DEF FormBelongsToTicket, OfferMatchesFilters, UsersShown, FormShown
<1> QED
  BY <1>4, <1>5, <1>8, <1>9 DEF AssignInvariant

LEMMA RetryLoadKeeps ==
    ASSUME AssignInvariant, RetryLoad
    PROVE  AssignInvariant'
<1>1. /\ ticketID \in Tickets /\ ticketID # None /\ ticketID' = ticketID /\ ~FormShown
      /\ UNCHANGED <<userTimer, userSearchSequence>>
      /\ loadSequence' = loadSequence + 1
      /\ lookups' = lookups \cup {LoadCall(ticketID, loadSequence + 1)}
      /\ form \in Form
  BY DEF RetryLoad, FormShown, AssignInvariant, AssignTypeOK
<1>2. /\ form' \in Form /\ form'.loading /\ form'.shown = form.shown
      /\ form'.term = form.term
  BY <1>1 DEF RetryLoad, Form
<1>3. /\ LoadsAreNumbered' /\ UserSearches' = UserSearches
      /\ loadSequence' \in Nat /\ lookups' \subseteq LoadCalls \cup SearchCalls
  BY <1>1, <1>2, NewLoad
<1>4. AssignTypeOK'
  BY <1>1, <1>2, <1>3 DEF AssignInvariant, AssignTypeOK
<1>5. SearchesAreNumbered'
  BY <1>1, <1>3 DEF AssignInvariant, SearchesAreNumbered
<1>6. LatestSearchIsAwaited'
  BY <1>1, <1>3, NothingSearched DEF LatestSearchIsAwaited, IsCurrentSearch
<1>7. FormBelongsToTicket' /\ OfferMatchesFilters'
  BY <1>1, <1>2, NothingSearched
     DEF AssignInvariant, FormBelongsToTicket, OfferMatchesFilters, UsersShown, FormShown
<1> QED
  BY <1>3, <1>4, <1>5, <1>6, <1>7 DEF AssignInvariant

\* Ticket and groups arrived, or not.
LEMMA LoadAnsweredKeeps ==
    ASSUME AssignInvariant, NEW c \in lookups, LoadAnswered(c),
           UNCHANGED <<ticketID, userTimer, loadSequence, userSearchSequence>>
    PROVE  AssignInvariant'
<1>1. /\ c \in Loads /\ c \in LoadCalls /\ c.op = "load" /\ form \in Form
  BY DEF LoadAnswered, Loads, AssignInvariant, AssignTypeOK, LoadCalls, SearchCalls
<1> DEFINE users == [c EXCEPT !.op = "load users"]
<1>2. /\ users \in LoadCalls /\ users.op # "search" /\ users.op # "load"
      /\ users.seq = c.seq /\ users.ticket = c.ticket
  BY <1>1 DEF LoadCalls
<1> HIDE DEF users
<1>3. \/ lookups' = lookups \ {c}
      \/ lookups' = (lookups \ {c}) \cup {users}
  BY DEF LoadAnswered, users
<1>4. /\ UserSearches' = UserSearches
      /\ Loads' = Loads \ {c} \/ Loads' = (Loads \ {c}) \cup {users}
      /\ lookups' \subseteq LoadCalls \cup SearchCalls
  BY <1>1, <1>2, <1>3 DEF Loads, UserSearches, AssignInvariant, AssignTypeOK
<1>5. CASE form' = form
  <2>1. AssignTypeOK' /\ SearchesAreNumbered' /\ LatestSearchIsAwaited'
          /\ FormBelongsToTicket' /\ OfferMatchesFilters'
    BY <1>4, <1>5
       DEF AssignInvariant, AssignTypeOK, SearchesAreNumbered, LatestSearchIsAwaited,
           IsCurrentSearch, FormBelongsToTicket, FormShown, OfferMatchesFilters, UsersShown,
           VisibleUsers
  <2>2. LoadsAreNumbered'
    BY <1>1, <1>2, <1>4, <1>5 DEF AssignInvariant, LoadsAreNumbered, IsCurrentLoad
  <2> QED
    BY <2>1, <2>2 DEF AssignInvariant
<1>6. CASE form' # form
  <2>1. /\ IsCurrentLoad(c) /\ lookups' = lookups \ {c}
        /\ form' = [form EXCEPT !.loadError = TRUE, !.loading = FALSE]
    BY <1>6 DEF LoadAnswered
  <2>2. ticketID # None /\ ~FormShown
    BY <1>1, <2>1, DirectoryKnown
       DEF AssignInvariant, LoadsAreNumbered, IsCurrentLoad, FormShown, LoadCalls
  <2>3. /\ form' \in Form /\ form'.loadError /\ form'.shown = form.shown
        /\ form'.term = form.term
    BY <1>1, <2>1 DEF Form
  <2>4. ~FormShown'
    BY <2>3 DEF FormShown
  <2>5. LoadsAreNumbered'
    <3>1. Loads' = Loads \ {c}
      BY <2>1, <1>1 DEF Loads
    <3>2. \A d \in Loads' : ~IsCurrentLoad(d)
      BY <1>1, <2>1, <3>1 DEF AssignInvariant, LoadsAreNumbered, IsCurrentLoad
    <3> QED
      BY <3>1, <3>2 DEF AssignInvariant, LoadsAreNumbered, IsCurrentLoad
  <2>6. AssignTypeOK' /\ SearchesAreNumbered'
    BY <1>4, <2>3 DEF AssignInvariant, AssignTypeOK, SearchesAreNumbered
  <2>7. LatestSearchIsAwaited'
    BY <1>4, <2>2, NothingSearched DEF LatestSearchIsAwaited, IsCurrentSearch
  <2>8. FormBelongsToTicket' /\ OfferMatchesFilters'
    BY <2>2, <2>3, <2>4, NothingSearched
       DEF AssignInvariant, FormBelongsToTicket, OfferMatchesFilters, UsersShown
  <2> QED
    BY <2>5, <2>6, <2>7, <2>8 DEF AssignInvariant
<1> QED
  BY <1>5, <1>6

\* A load is over: the current one was the only one of its number.
LEMMA LoadOver ==
    ASSUME AssignInvariant, NEW c \in Loads, lookups' = lookups \ {c},
           UNCHANGED <<ticketID, loadSequence>>,
           form'.loading = form.loading \/ IsCurrentLoad(c)
    PROVE  /\ LoadsAreNumbered' /\ UserSearches' = UserSearches
           /\ lookups' \subseteq LoadCalls \cup SearchCalls
<1>1. Loads' = Loads \ {c} /\ UserSearches' = UserSearches
  BY DEF Loads, UserSearches
<1>2. IsCurrentLoad(c) => \A d \in Loads' : ~IsCurrentLoad(d)
  BY <1>1 DEF AssignInvariant, LoadsAreNumbered, IsCurrentLoad
<1>3. LoadsAreNumbered'
  BY <1>1, <1>2 DEF AssignInvariant, LoadsAreNumbered, IsCurrentLoad
<1> QED
  BY <1>1, <1>3 DEF AssignInvariant, AssignTypeOK

\* The form is filled with the users found, or with a notice.
LEMMA FilledShows ==
    ASSUME AssignInvariant, NEW c \in Loads, IsCurrentLoad(c), NEW b \in BOOLEAN,
           NEW found, \/ found = LookupUsers(Assigned[c.ticket].departments, Everyone)
                      \/ found = {} /\ b,
           form' = Filled(c, found, b), ticketID' = ticketID
    PROVE  /\ form' \in Form /\ form'.shown = ticketID /\ form'.term = form.term
           /\ OfferMatchesFilters'
<1> DEFINE t == c.ticket
           groups == Assigned[t].departments
           users == MergeUserOptions(found, t, groups)
<1>1. /\ t \in Tickets /\ t = ticketID /\ form \in Form /\ form.term = Everyone
      /\ ticketID # None
  <2>1. t \in Tickets /\ t = ticketID /\ form \in Form /\ form.loading
    BY DEF AssignInvariant, AssignTypeOK, LoadsAreNumbered, Loads, LoadCalls, SearchCalls,
           IsCurrentLoad
  <2>2. ticketID # None /\ ~FormShown
    BY <2>1, DirectoryKnown DEF FormShown
  <2> QED
    BY <2>1, <2>2, NothingSearched
<1>2. /\ groups \in SUBSET Departments /\ Assigned[t].users \in SUBSET Users
  BY <1>1, DirectoryKnown
<1>3. /\ users \in SUBSET Users
      /\ ~b => users \cap InGroups(groups)
                 = (Found[Everyone] \cup Assigned[t].users) \cap InGroups(groups)
  <2>1. CASE found = LookupUsers(groups, Everyone)
    BY <1>1, <2>1, MergedUsersMatch, DirectoryKnown
  <2>2. CASE found = {} /\ b
    BY <1>2, <2>2 DEF MergeUserOptions
  <2> QED
    BY <2>1, <2>2
<1>4. form' = [form EXCEPT !.shown = t, !.loading = FALSE, !.groups = groups,
                           !.staff = Assigned[t].users, !.users = users,
                           !.searchError = b]
  BY DEF Filled
<1> HIDE DEF users, groups, t
<1>5. /\ form' \in Form /\ form'.shown = t /\ form'.term = form.term
      /\ form'.groups = groups /\ form'.users = users /\ form'.searchError = b
  BY <1>1, <1>2, <1>3, <1>4 DEF Form
<1>6. OfferMatchesFilters'
  BY <1>1, <1>3, <1>5
     DEF OfferMatchesFilters, UsersShown, FormShown, VisibleUsers
<1> QED
  BY <1>1, <1>5, <1>6

LEMMA LoadUsersAnsweredKeeps ==
    ASSUME AssignInvariant, NEW c \in lookups, LoadUsersAnswered(c),
           UNCHANGED <<ticketID, userTimer, loadSequence, userSearchSequence>>
    PROVE  AssignInvariant'
<1>1. c \in Loads /\ lookups' = lookups \ {c} /\ form \in Form
  BY DEF LoadUsersAnswered, Loads, AssignInvariant, AssignTypeOK
<1>2. CASE IsCurrentLoad(c) /\ form' # form
  <2> DEFINE answer == LookupUsers(Assigned[c.ticket].departments, Everyone)
  <2>1. \/ form' = Filled(c, answer, form.searchError)
        \/ form' = Filled(c, {}, TRUE)
    BY <1>2 DEF LoadUsersAnswered
  <2>2. /\ form' \in Form /\ form'.shown = ticketID /\ form'.term = form.term
        /\ OfferMatchesFilters'
    <3>1. form.searchError \in BOOLEAN /\ ticketID' = ticketID
      BY <1>1 DEF Form
    <3>2. CASE form' = Filled(c, answer, form.searchError)
      BY <1>1, <1>2, <3>1, <3>2, FilledShows
    <3>3. CASE form' = Filled(c, {}, TRUE)
      BY <1>1, <1>2, <3>1, <3>3, FilledShows
    <3> QED
      BY <2>1, <3>2, <3>3
  <2>3. ticketID # None /\ ~FormShown
    BY <1>1, <1>2, DirectoryKnown
       DEF AssignInvariant, AssignTypeOK, LoadsAreNumbered, IsCurrentLoad, FormShown, Loads,
           LoadCalls, SearchCalls
  <2>4. LoadsAreNumbered' /\ UserSearches' = UserSearches
          /\ lookups' \subseteq LoadCalls \cup SearchCalls
    BY <1>1, <1>2, LoadOver
  <2>5. AssignTypeOK' /\ SearchesAreNumbered'
    BY <2>2, <2>4 DEF AssignInvariant, AssignTypeOK, SearchesAreNumbered
  <2>6. LatestSearchIsAwaited'
    BY <2>3, <2>4, NothingSearched DEF LatestSearchIsAwaited, IsCurrentSearch
  <2>7. FormBelongsToTicket'
    BY <2>2, <2>3, NothingSearched DEF FormBelongsToTicket
  <2> QED
    BY <2>2, <2>4, <2>5, <2>6, <2>7 DEF AssignInvariant
<1>3. CASE ~(IsCurrentLoad(c) /\ form' # form)
  <2>1. \/ form' = form
        \/ form' = [form EXCEPT !.searchError = TRUE]
    BY <1>3 DEF LoadUsersAnswered
  <2>2. /\ form' \in Form /\ SameFilters
        /\ form'.loading = form.loading /\ form'.loadError = form.loadError
        /\ form'.searching = form.searching
        /\ form'.searchError = form.searchError \/ form'.searchError
    BY <1>1, <2>1 DEF Form, SameFilters
  <2>3. LoadsAreNumbered' /\ UserSearches' = UserSearches
          /\ lookups' \subseteq LoadCalls \cup SearchCalls
    BY <1>1, <2>2, LoadOver
  <2>4. AssignTypeOK' /\ SearchesAreNumbered'
    BY <2>2, <2>3 DEF AssignInvariant, AssignTypeOK, SearchesAreNumbered
  <2>5. FormShown' <=> FormShown
    BY <2>2 DEF FormShown, SameFilters
  <2>6. LatestSearchIsAwaited' /\ FormBelongsToTicket'
    BY <2>2, <2>3, <2>5
       DEF AssignInvariant, LatestSearchIsAwaited, IsCurrentSearch, FormBelongsToTicket,
           SameFilters
  <2>7. OfferMatchesFilters'
    BY <2>2, <2>5 DEF AssignInvariant, OfferMatchesFilters, UsersShown, VisibleUsers,
                      SameFilters
  <2> QED
    BY <2>3, <2>4, <2>6, <2>7 DEF AssignInvariant
<1> QED
  BY <1>2, <1>3

-----------------------------------------------------------------------------
(* The assignment dialog: searching.                                       *)

\* A number one higher than every search that was sent or delayed.
LEMMA NumbersSoFar ==
    ASSUME AssignInvariant
    PROVE  /\ userSearchSequence \in Nat
           /\ \A c \in UserSearches : c.seq \in Nat /\ c.seq <= userSearchSequence
           /\ userTimer # None =>
                 userTimer.seq \in Nat /\ userTimer.seq <= userSearchSequence
BY DEF AssignInvariant, AssignTypeOK, SearchesAreNumbered, UserSearches, LoadCalls,
       SearchCalls, Timers

\* The form says it is searching, the rest of it being shown as before.
LEMMA SearchingForm ==
    ASSUME AssignInvariant, NEW groups \in SUBSET Departments, NEW term \in Terms,
           form' = [form EXCEPT !.groups = groups, !.term = term, !.searching = TRUE,
                                !.searchError = FALSE],
           FormShown, UNCHANGED <<ticketID, loadSequence>>, Loads' = Loads
    PROVE  /\ form' \in Form /\ FormShown' /\ form'.searching
           /\ form'.groups = groups /\ form'.term = term
           /\ LoadsAreNumbered' /\ FormBelongsToTicket' /\ OfferMatchesFilters'
<1>1. form \in Form /\ FormBelongsToTicket /\ ticketID # None
  BY DEF AssignInvariant, AssignTypeOK, FormShown
<1>2. form' \in Form
  BY <1>1 DEF Form
<1>3. form'.searching
  BY <1>1 DEF Form
<1>4. /\ form'.groups = groups /\ form'.term = term /\ form'.shown = form.shown
      /\ form'.loading = form.loading /\ form'.loadError = form.loadError
  BY <1>1 DEF Form
<1>5. FormShown'
  BY <1>4 DEF FormShown
<1>6. LoadsAreNumbered'
  BY <1>4 DEF AssignInvariant, LoadsAreNumbered, IsCurrentLoad
<1>7. FormBelongsToTicket'
  BY <1>1, <1>4, <1>5 DEF FormBelongsToTicket
<1>8. OfferMatchesFilters'
  BY <1>1, <1>3, <1>4, <1>5
     DEF OfferMatchesFilters, UsersShown, FormBelongsToTicket, FormShown
<1> QED
  BY <1>2, <1>3, <1>4, <1>5, <1>6, <1>7, <1>8

LEMMA RefreshUsersKeeps ==
    ASSUME AssignInvariant, FormShown, NEW groups \in SUBSET Departments,
           RefreshUsers(groups)
    PROVE  AssignInvariant'
<1> DEFINE call == SearchCall(groups, form.term, userSearchSequence + 1)
<1>1. form \in Form /\ form.term \in Terms
  BY DEF AssignInvariant, AssignTypeOK, Form
<1>2. call = [op |-> "search", groups |-> groups, term |-> form.term,
              seq |-> userSearchSequence + 1]
  BY DEF SearchCall
<1>3. /\ form' = [form EXCEPT !.groups = groups, !.term = form.term, !.searching = TRUE,
                              !.searchError = FALSE]
      /\ userSearchSequence' = userSearchSequence + 1
      /\ lookups' = lookups \cup {call}
      /\ UNCHANGED <<ticketID, userTimer, loadSequence>>
  <2>1. [form EXCEPT !.groups = groups, !.searching = TRUE, !.searchError = FALSE]
          = [form EXCEPT !.groups = groups, !.term = form.term, !.searching = TRUE,
                         !.searchError = FALSE]
    BY <1>1 DEF Form
  <2> QED
    BY <2>1 DEF RefreshUsers
<1> HIDE DEF call
<1>4. /\ call \in SearchCalls /\ call.op = "search" /\ call.seq = userSearchSequence + 1
      /\ call.groups = groups /\ call.term = form.term
  BY <1>1, <1>2, NumbersSoFar DEF SearchCalls
<1>5. Loads' = Loads /\ UserSearches' = UserSearches \cup {call}
  BY <1>3, <1>4 DEF Loads, UserSearches
<1>6. /\ form' \in Form /\ FormShown' /\ form'.searching
      /\ form'.groups = groups /\ form'.term = form.term
      /\ LoadsAreNumbered' /\ FormBelongsToTicket' /\ OfferMatchesFilters'
  BY <1>1, <1>3, <1>5, SearchingForm
<1>7. AssignTypeOK'
  BY <1>3, <1>4, <1>6, NumbersSoFar DEF AssignInvariant, AssignTypeOK
<1>8. SearchesAreNumbered'
  BY <1>3, <1>4, <1>5, NumbersSoFar DEF AssignInvariant, SearchesAreNumbered
<1>9. LatestSearchIsAwaited'
  BY <1>3, <1>4, <1>5, <1>6, NumbersSoFar DEF LatestSearchIsAwaited, IsCurrentSearch
<1> QED
  BY <1>6, <1>7, <1>8, <1>9 DEF AssignInvariant

LEMMA ScheduleUserSearchKeeps ==
    ASSUME AssignInvariant, NEW term \in Terms, ScheduleUserSearch(term)
    PROVE  AssignInvariant'
<1> DEFINE timer == [groups |-> form.groups, seq |-> userSearchSequence + 1]
<1>1. form \in Form /\ form.groups \in SUBSET Departments /\ FormShown
  BY DEF AssignInvariant, AssignTypeOK, Form, ScheduleUserSearch
<1>2. /\ form' = [form EXCEPT !.groups = form.groups, !.term = term, !.searching = TRUE,
                              !.searchError = FALSE]
      /\ userSearchSequence' = userSearchSequence + 1
      /\ userTimer' = timer
      /\ UNCHANGED <<ticketID, loadSequence, lookups>>
  <2>1. [form EXCEPT !.term = term, !.searching = TRUE, !.searchError = FALSE]
          = [form EXCEPT !.groups = form.groups, !.term = term, !.searching = TRUE,
                         !.searchError = FALSE]
    BY <1>1 DEF Form
  <2> QED
    BY <2>1 DEF ScheduleUserSearch
<1>3. timer \in Timers /\ timer.seq = userSearchSequence + 1 /\ timer.groups = form.groups
  BY <1>1, NumbersSoFar DEF Timers
<1> HIDE DEF timer
<1>4. Loads' = Loads /\ UserSearches' = UserSearches
  BY <1>2 DEF Loads, UserSearches
<1>5. /\ form' \in Form /\ FormShown' /\ form'.searching
      /\ form'.groups = form.groups /\ form'.term = term
      /\ LoadsAreNumbered' /\ FormBelongsToTicket' /\ OfferMatchesFilters'
  BY <1>1, <1>2, <1>4, SearchingForm
<1>6. AssignTypeOK'
  BY <1>2, <1>3, <1>5, NumbersSoFar DEF AssignInvariant, AssignTypeOK
<1>7. SearchesAreNumbered'
  BY <1>2, <1>3, <1>4, NumbersSoFar DEF AssignInvariant, SearchesAreNumbered
<1>8. LatestSearchIsAwaited'
  BY <1>2, <1>3, <1>4, <1>5, NumbersSoFar DEF LatestSearchIsAwaited, IsCurrentSearch
<1> QED
  BY <1>5, <1>6, <1>7, <1>8 DEF AssignInvariant

\* The delayed search is sent with the number it was given.
LEMMA SearchTimerFiresKeeps ==
    ASSUME AssignInvariant, SearchTimerFires
    PROVE  AssignInvariant'
<1> DEFINE call == SearchCall(userTimer.groups, form.term, userTimer.seq)
<1>1. call = [op |-> "search", groups |-> userTimer.groups, term |-> form.term,
              seq |-> userTimer.seq]
  BY DEF SearchCall
<1>2. /\ userTimer # None /\ userTimer' = None
      /\ lookups' = lookups \cup {call}
      /\ UNCHANGED <<ticketID, form, loadSequence, userSearchSequence>>
  BY DEF SearchTimerFires
<1> HIDE DEF call
<1>3. userTimer \in Timers /\ form.term \in Terms
  BY <1>2 DEF AssignInvariant, AssignTypeOK, Form
<1>4. /\ call \in SearchCalls /\ call.op = "search" /\ call.seq = userTimer.seq
      /\ call.groups = userTimer.groups /\ call.term = form.term
  BY <1>1, <1>3 DEF SearchCalls, Timers
<1>5. Loads' = Loads /\ UserSearches' = UserSearches \cup {call}
  BY <1>2, <1>4 DEF Loads, UserSearches
<1>6. AssignTypeOK' /\ LoadsAreNumbered'
  BY <1>2, <1>4, <1>5 DEF AssignInvariant, AssignTypeOK, LoadsAreNumbered, IsCurrentLoad
<1>7. SearchesAreNumbered'
  BY <1>2, <1>4, <1>5 DEF AssignInvariant, SearchesAreNumbered
<1>8. LatestSearchIsAwaited'
  BY <1>2, <1>4, <1>5
     DEF AssignInvariant, LatestSearchIsAwaited, IsCurrentSearch, FormShown
<1>9. FormBelongsToTicket' /\ OfferMatchesFilters'
  BY <1>2 DEF AssignInvariant, FormBelongsToTicket, OfferMatchesFilters, FormShown,
              UsersShown, VisibleUsers
<1> QED
  BY <1>6, <1>7, <1>8, <1>9 DEF AssignInvariant

\* What an answer to a search does to the form.
LEMMA SearchAnswers ==
    ASSUME AssignInvariant, NEW c \in UserSearches, UserSearchAnswered(c),
           ticketID' = ticketID
    PROVE  /\ form' \in Form
           /\ form'.shown = form.shown /\ form'.groups = form.groups
           /\ form'.staff = form.staff /\ form'.term = form.term
           /\ form'.loading = form.loading /\ form'.loadError = form.loadError
           /\ ~IsCurrentSearch(c) /\ ticketID # None =>
                 /\ form'.searching = form.searching
                 /\ form'.searchError = form.searchError /\ form'.users = form.users
           /\ IsCurrentSearch(c) =>
                 \/ form' = form
                 \/ form'.searchError
                 \/ form'.users = MergeUserOptions(LookupUsers(c.groups, c.term),
                                                   form.shown, c.groups)
<1>1. /\ form \in Form /\ c.term \in Terms /\ form.searching \in BOOLEAN
      /\ Found[c.term] \in SUBSET Users
      /\ form.shown \in Tickets => Assigned[form.shown].users \in SUBSET Users
  BY DirectoryKnown DEF AssignInvariant, AssignTypeOK, Form, UserSearches, LoadCalls,
                        SearchCalls
<1>2. PICK s \in BOOLEAN :
         /\ s <=> form.searching /\ c.seq # userSearchSequence
         /\ [form EXCEPT !.searching = s]
              = [form EXCEPT !.searching = @ /\ c.seq # userSearchSequence]
  BY <1>1, Zenon
<1> DEFINE idle == [form EXCEPT !.searching = s]
           users == MergeUserOptions(LookupUsers(c.groups, c.term), form.shown, c.groups)
<1>3. users \in SUBSET Users
  BY <1>1 DEF MergeUserOptions, LookupUsers, Form
<1>4. /\ ~IsCurrentSearch(c) => form' = idle
      /\ IsCurrentSearch(c) => \/ form' = form
                               \/ form' = [idle EXCEPT !.users = users]
                               \/ form' = [idle EXCEPT !.searchError = TRUE]
  BY <1>2 DEF UserSearchAnswered
<1> HIDE DEF users
<1>5. ~IsCurrentSearch(c) /\ ticketID # None => (s <=> form.searching)
  BY <1>2 DEF IsCurrentSearch
<1>6. CASE form' = form
  BY <1>1, <1>6
<1>7. CASE form' = idle /\ ~IsCurrentSearch(c)
  BY <1>1, <1>5, <1>7 DEF Form
<1>8. CASE form' = [idle EXCEPT !.users = users] /\ IsCurrentSearch(c)
  BY <1>1, <1>3, <1>8 DEF Form, users
<1>9. CASE form' = [idle EXCEPT !.searchError = TRUE] /\ IsCurrentSearch(c)
  BY <1>1, <1>9 DEF Form
<1> QED
  BY <1>4, <1>6, <1>7, <1>8, <1>9

LEMMA UserSearchAnsweredKeeps ==
    ASSUME AssignInvariant, NEW c \in lookups, UserSearchAnswered(c),
           UNCHANGED <<ticketID, userTimer, loadSequence, userSearchSequence>>
    PROVE  AssignInvariant'
<1>1. /\ c \in UserSearches /\ lookups' = lookups \ {c}
      /\ Loads' = Loads /\ UserSearches' = UserSearches \ {c}
  BY DEF UserSearchAnswered, UserSearches, Loads
<1>2. /\ form' \in Form
      /\ form'.shown = form.shown /\ form'.groups = form.groups
      /\ form'.term = form.term
      /\ form'.loading = form.loading /\ form'.loadError = form.loadError
  BY <1>1, SearchAnswers
<1>3. FormShown' <=> FormShown
  BY <1>2 DEF FormShown
<1>4. AssignTypeOK' /\ LoadsAreNumbered'
  BY <1>1, <1>2 DEF AssignInvariant, AssignTypeOK, LoadsAreNumbered, IsCurrentLoad
<1>5. SearchesAreNumbered'
  BY <1>1 DEF AssignInvariant, SearchesAreNumbered
<1>6. FormBelongsToTicket'
  BY <1>2, <1>3 DEF AssignInvariant, FormBelongsToTicket
<1>7. CASE ticketID = None
  BY <1>4, <1>5, <1>6, <1>7
     DEF AssignInvariant, LatestSearchIsAwaited, IsCurrentSearch, OfferMatchesFilters,
         UsersShown, FormShown
<1>8. CASE ticketID # None /\ ~IsCurrentSearch(c)
  <2>1. /\ form'.searching = form.searching
        /\ form'.searchError = form.searchError /\ form'.users = form.users
    BY <1>1, <1>8, SearchAnswers
  <2>2. LatestSearchIsAwaited'
    BY <1>1, <1>2, <1>3, <2>1 DEF AssignInvariant, LatestSearchIsAwaited, IsCurrentSearch
  <2>3. OfferMatchesFilters'
    BY <1>2, <1>3, <2>1 DEF AssignInvariant, OfferMatchesFilters, UsersShown, VisibleUsers
  <2> QED
    BY <1>4, <1>5, <1>6, <2>2, <2>3 DEF AssignInvariant
<1>9. CASE ticketID # None /\ IsCurrentSearch(c)
  <2>1. /\ FormShown /\ form.searching
        /\ c.groups = form.groups /\ c.term = form.term
    BY <1>1, <1>9 DEF AssignInvariant, LatestSearchIsAwaited
  <2>2. /\ \A d \in UserSearches' : ~IsCurrentSearch(d)
        /\ userTimer # None => ~IsCurrentSearch(userTimer)
    BY <1>1, <1>9 DEF AssignInvariant, SearchesAreNumbered, IsCurrentSearch
  <2>3. LatestSearchIsAwaited'
    BY <2>2 DEF LatestSearchIsAwaited, IsCurrentSearch
  <2>4. form.shown \in Tickets /\ form.shown = ticketID /\ c.term \in Terms
    BY <1>1, <1>9, <2>1
       DEF AssignInvariant, AssignTypeOK, FormBelongsToTicket, FormShown, Form
  <2>5. OfferMatchesFilters'
    <3>1. CASE form' = form \/ form'.searchError
      BY <1>2, <2>1, <2>4, <3>1 DEF OfferMatchesFilters, UsersShown
    <3>2. CASE form'.users = MergeUserOptions(LookupUsers(c.groups, c.term),
                                              form.shown, c.groups)
      BY <1>2, <2>1, <2>4, <3>2, MergedUsersMatch DEF OfferMatchesFilters, VisibleUsers
    <3> QED
      BY <1>1, <1>9, <3>1, <3>2, SearchAnswers
  <2> QED
    BY <1>4, <1>5, <1>6, <2>3, <2>5 DEF AssignInvariant
<1> QED
  BY <1>7, <1>8, <1>9

LEMMA LookupAnsweredKeeps ==
    ASSUME AssignInvariant, LookupAnswered
    PROVE  AssignInvariant'
<1>1. PICK c \in lookups : LoadAnswered(c) \/ LoadUsersAnswered(c) \/ UserSearchAnswered(c)
  BY DEF LookupAnswered
<1>2. UNCHANGED <<ticketID, userTimer, loadSequence, userSearchSequence>>
  BY DEF LookupAnswered
<1> QED
  BY <1>1, <1>2, LoadAnsweredKeeps, LoadUsersAnsweredKeeps, UserSearchAnsweredKeeps

LEMMA RefreshingKeeps ==
    ASSUME AssignInvariant,
           \/ \E d \in Departments : ToggleDepartment(d)
           \/ \E visible \in SUBSET Departments : SelectVisibleDepartments(visible)
           \/ ClearDepartments \/ RetryUserSearch
    PROVE  AssignInvariant'
<1>1. form.groups \in SUBSET Departments
  BY DEF AssignInvariant, AssignTypeOK, Form
<1>2. PICK groups \in SUBSET Departments : FormShown /\ RefreshUsers(groups)
  <2>1. CASE \E d \in Departments : ToggleDepartment(d)
    <3>1. PICK d \in Departments : ToggleDepartment(d)
      BY <2>1
    <3>2. CASE d \in form.groups
      BY <1>1, <3>1, <3>2 DEF ToggleDepartment
    <3>3. CASE d \notin form.groups
      BY <1>1, <3>1, <3>3 DEF ToggleDepartment
    <3> QED
      BY <3>2, <3>3
  <2>2. CASE \E visible \in SUBSET Departments : SelectVisibleDepartments(visible)
    BY <1>1, <2>2 DEF SelectVisibleDepartments
  <2>3. CASE ClearDepartments \/ RetryUserSearch
    BY <1>1, <2>3 DEF ClearDepartments, RetryUserSearch
  <2> QED
    BY <2>1, <2>2, <2>3
<1> QED
  BY <1>2, RefreshUsersKeeps

LEMMA AssignNextKeeps ==
    ASSUME AssignInvariant, AssignNext \/ UNCHANGED assignVars
    PROVE  AssignInvariant'
BY ClicksKeep, OpenDialogKeeps, RetryLoadKeeps, RefreshingKeeps, ScheduleUserSearchKeeps,
   SearchTimerFiresKeeps, LookupAnsweredKeeps
   DEF AssignNext, AssignUser, AssignWaits, HandleClose

LEMMA AssignInitEstablishes == AssignInit => AssignInvariant
<1> SUFFICES ASSUME AssignInit
             PROVE  AssignInvariant
  OBVIOUS
<1>1. /\ ticketID = None /\ userTimer = None /\ lookups = {}
      /\ loadSequence = 0 /\ userSearchSequence = 0
      /\ form = [shown |-> None, users |-> {}, groups |-> {}, staff |-> {},
                 term |-> Everyone, loading |-> FALSE, loadError |-> FALSE,
                 searching |-> FALSE, searchError |-> FALSE]
  BY DEF AssignInit, EmptyForm
<1>2. form \in Form
  BY <1>1, DirectoryKnown DEF Form
<1>3. AssignTypeOK
  BY <1>1, <1>2 DEF AssignTypeOK
<1> QED
  BY <1>1, <1>3
     DEF AssignInvariant, LoadsAreNumbered, SearchesAreNumbered, LatestSearchIsAwaited,
         FormBelongsToTicket, OfferMatchesFilters, UsersShown, FormShown, Loads, UserSearches

-----------------------------------------------------------------------------
(* The properties of both dialogs.                                         *)

\* Every click counts, and answers do not.
LEMMA ClicksAreCounted ==
    /\ AssignUser => acts' = acts + 1
    /\ AssignWaits => acts' = acts
BY DEF AssignUser, UserActs, OpenDialog, HandleClose, CloseAssignDialog, RetryLoad,
       ToggleDepartment, SelectVisibleDepartments, ClearDepartments, RetryUserSearch, SelectUsers,
       ScheduleUserSearch, SubmitAssignment, AssignWaits, SearchTimerFires, LookupAnswered,
       AssignAnswered

LEMMA InvariantsHold == Spec => [](AssignInvariant /\ RequestInvariant /\ acts \in Nat)
<1>1. Init => AssignInvariant /\ RequestInvariant /\ acts \in Nat
  BY AssignInitEstablishes, RequestInitEstablishes DEF Init, AssignInit
<1>2. AssignInvariant /\ RequestInvariant /\ acts \in Nat /\ [Next]_vars
        => (AssignInvariant /\ RequestInvariant /\ acts \in Nat)'
  <2>1. acts \in Nat /\ [Next]_vars => acts' \in Nat
    BY ClicksAreCounted DEF Next, vars, AssignNext, assignVars
  <2> QED
    BY <2>1, AssignNextKeeps, RequestNextKeeps DEF Next, vars
<1> QED
  BY <1>1, <1>2, PTL DEF Spec

\* The assignment dialog offers the users its search field and its groups ask
\* for, and shows the ticket it was opened for, in whatever order the answers
\* of this and of earlier openings arrive (loadSequence, userSearchSequence).
THEOREM OffersMatch == Spec => []OfferMatchesFilters
<1>1. AssignInvariant => OfferMatchesFilters
  BY DEF AssignInvariant
<1> QED
  BY <1>1, InvariantsHold, PTL

\* The request dialog sends the location its field names.  A list that a search
\* found is the one for the text in the field, one that a load left has all
\* locations, and one without an answer is empty, under an empty field.  That
\* the list is always the one for the text is not so: see ListAnswersTheText.
THEOREM LocationsAreTrue == Spec => []LocationFieldIsTrue
BY InvariantShowsTruth, InvariantsHold, PTL

\* No answer changes what the user has selected while the form is shown: only
\* the load of the ticket fills the selection, and it ends before.
THEOREM SelectionStays == Spec => SelectionIsTheUsers
<1>1. ASSUME AssignInvariant, acts \in Nat, [Next]_vars, FormShown, acts' = acts
      PROVE  form'.groups = form.groups /\ form'.staff = form.staff
  <2>1. CASE UNCHANGED assignVars \/ SearchTimerFires \/ AssignAnswered
    BY <2>1 DEF assignVars, SearchTimerFires, AssignAnswered
  <2>2. CASE LookupAnswered
    <3>1. PICK c \in lookups :
             LoadAnswered(c) \/ LoadUsersAnswered(c) \/ UserSearchAnswered(c)
      BY <2>2 DEF LookupAnswered
    <3>2. ticketID' = ticketID /\ form \in Form
      BY <1>1, <2>2 DEF LookupAnswered, AssignInvariant, AssignTypeOK
    <3>3. c \in Loads => ~IsCurrentLoad(c)
      BY <1>1 DEF AssignInvariant, LoadsAreNumbered, FormShown
    <3>4. CASE LoadAnswered(c) \/ LoadUsersAnswered(c)
      <4>1. c \in Loads
        BY <3>1, <3>4 DEF LoadAnswered, LoadUsersAnswered, Loads
      <4>2. form' = form \/ form' = [form EXCEPT !.searchError = TRUE]
        BY <3>3, <3>4, <4>1 DEF LoadAnswered, LoadUsersAnswered
      <4> QED
        BY <3>2, <4>2 DEF Form
    <3>5. CASE UserSearchAnswered(c)
      <4>1. c \in UserSearches
        BY <3>1, <3>5 DEF UserSearchAnswered, UserSearches
      <4> QED
        BY <1>1, <3>2, <3>5, <4>1, SearchAnswers
    <3> QED
      BY <3>1, <3>4, <3>5
  <2>3. CASE AssignUser
    BY <1>1, <2>3, ClicksAreCounted
  <2> QED
    BY <1>1, <2>1, <2>2, <2>3 DEF Next, vars, AssignNext, AssignWaits
<1>2. AssignInvariant /\ acts \in Nat /\ [Next]_vars =>
        [FormShown /\ FormShown' /\ acts' = acts
           => form'.groups = form.groups /\ form'.staff = form.staff]_assignVars
  BY <1>1
<1> QED
  BY <1>2, InvariantsHold, PTL DEF Spec, SelectionIsTheUsers
=============================================================================
