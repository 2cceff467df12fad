------------------------- MODULE ProfilePageProofs -------------------------
(***************************************************************************)
(* Theorems about ProfilePage, for all job lists, searches, page sizes and *)
(* bookmarks, however much the user does.                                  *)
(***************************************************************************)
EXTENDS ProfilePage, TableLemmas

-----------------------------------------------------------------------------
(* Views and query strings. *)

Views ==
  [q : Searches \cup {AnyJob}, sort : Columns, dir : {"asc", "desc", "none"},
   page : Nat \ {0}, pageSize : PageSizes \cup {DefaultSize}]

Params == {"q", "sort", "dir", "page", "pageSize"}

(* A view is the function from the parameters that the query string knows. *)
LEMMA ViewsAreFunctions ==
  \A v \in Views :
    /\ v = [p \in Params |-> v[p]]
    /\ \A p \in Params : v[p] \in Valid(p) \/ v[p] = DefaultView[p]
    /\ v["sort"] \in Valid("sort") /\ v["dir"] \in Valid("dir")
<1> SUFFICES ASSUME NEW v \in Views
             PROVE  /\ v = [p \in Params |-> v[p]]
                    /\ \A p \in Params : v[p] \in Valid(p) \/ v[p] = DefaultView[p]
                    /\ v["sort"] \in Valid("sort") /\ v["dir"] \in Valid("dir")
  OBVIOUS
<1>1. v = [p \in Params |-> v[p]]
  BY DEF Views, Params
<1>2. /\ v["q"] \in Valid("q") \/ v["q"] = DefaultView["q"]
      /\ v["sort"] \in Valid("sort") /\ v["dir"] \in Valid("dir")
      /\ v["page"] \in Valid("page")
      /\ v["pageSize"] \in Valid("pageSize") \/ v["pageSize"] = DefaultView["pageSize"]
  BY DEF Views, Valid, DefaultView
<1>3. QED
  BY <1>1, <1>2 DEF Params

LEMMA DefaultIsView ==
  /\ DefaultView \in Views
  /\ DOMAIN DefaultView = Params
  BY ProfilePageAssumption DEF DefaultView, Views, Columns, Params

(* Whatever the query string, what is read from it is a view.              *)
LEMMA ViewOfIsView == \A params : ViewOf(params) \in Views
<1> SUFFICES ASSUME NEW params PROVE ViewOf(params) \in Views
  OBVIOUS
<1>1. PICK read : /\ \A p \in read : params[p] \in Valid(p)
                  /\ ViewOf(params) = [p \in Params |->
                       IF p \in read THEN params[p] ELSE DefaultView[p]]
  <2> DEFINE valid == {p \in DOMAIN params : params[p] \in Valid(p)}
  <2>1. PICK read : read \subseteq valid /\
          ViewOf(params) = [p \in DOMAIN DefaultView |->
                       IF p \in read THEN params[p] ELSE DefaultView[p]]
    BY DEF ViewOf, Parse
  <2>2. QED
    BY <2>1, DefaultIsView
<1> DEFINE v == ViewOf(params)
<1>2. \A p \in Params : v[p] \in Valid(p) \/ v[p] = DefaultView[p]
  BY <1>1
<1>3. v = [q |-> v["q"], sort |-> v["sort"], dir |-> v["dir"],
           page |-> v["page"], pageSize |-> v["pageSize"]]
  BY <1>1 DEF Params
<1> HIDE DEF v
<1>4. /\ v["q"] \in Searches \cup {AnyJob}
      /\ v["sort"] \in Columns /\ v["dir"] \in {"asc", "desc", "none"}
      /\ v["page"] \in Nat \ {0} /\ v["pageSize"] \in PageSizes \cup {DefaultSize}
  BY <1>2 DEF Params, Valid, DefaultView, Columns
<1>5. v \in Views
  BY <1>3, <1>4 DEF Views
<1>6. QED
  BY <1>5 DEF v

(* What is written for a view is read as that view, though parameters that *)
(* have their default are left out: the two of the sort are written both   *)
(* or neither, and that is how they are read.                              *)
LEMMA RoundTrip == \A v \in Views : ViewOf(UrlOf(v)) = v
<1> SUFFICES ASSUME NEW v \in Views PROVE ViewOf(UrlOf(v)) = v
  OBVIOUS
<1> DEFINE params == UrlOf(v)
           valid  == {p \in DOMAIN params : params[p] \in Valid(p)}
<1>1. v = [p \in Params |-> v[p]] /\ SortParams \subseteq Params
  BY ViewsAreFunctions DEF SortParams, Params
<1>2. /\ DOMAIN params \subseteq Params
      /\ \A p \in DOMAIN params : params[p] = v[p]
      /\ \A p \in DOMAIN params : v[p] # DefaultView[p] \/ p \in SortParams
  BY <1>1, BuildFacts DEF UrlOf
<1> HIDE DEF params
<1>3. ASSUME NEW p \in DOMAIN params PROVE params[p] \in Valid(p)
  <2>1. p \in Params /\ params[p] = v[p]
    BY <1>2
  <2>2. CASE v[p] # DefaultView[p]
    BY <2>1, <2>2, ViewsAreFunctions
  <2>3. CASE p \in SortParams
    BY <2>1, <2>3, ViewsAreFunctions DEF SortParams
  <2>4. QED
    BY <1>2, <2>2, <2>3
<1>4. valid = DOMAIN params
  BY <1>3
<1> HIDE DEF valid
<1>5. ViewOf(params) = Parse(params, DefaultView, valid)
  BY DEF ViewOf, valid
<1>6. Parse(params, DefaultView, DOMAIN params) = v
  BY <1>1, DefaultIsView, ParseBuild DEF params, UrlOf
<1>7. QED
  BY <1>4, <1>5, <1>6 DEF params

-----------------------------------------------------------------------------
(* Sorting changes nothing about how many there are.                       *)

LEMMA SortKeepsLength ==
  ASSUME NEW S, NEW list \in Seq(S), NEW column,
         NEW dir \in {"asc", "desc", "none"}
  PROVE  \E T : /\ SortJobs(list, column, dir) \in Seq(T)
                /\ Len(SortJobs(list, column, dir)) = Len(list)
<1>1. PICK order :
        LET up == [n \in DOMAIN list |-> list[order[n]]]
        IN  SortJobs(list, column, dir) =
              CASE dir = "none" -> list
                [] dir = "asc"  -> up
                [] dir = "desc" -> Reverse(up)
  BY Zenon DEF SortJobs
<1> DEFINE up == [n \in 1 .. Len(list) |-> list[order[n]]]
           down == Reverse(up)
<1>2. Len(list) \in Nat /\ DOMAIN list = 1 .. Len(list)
  OBVIOUS
<1>3. SortJobs(list, column, dir) =
        CASE dir = "none" -> list
          [] dir = "asc"  -> up
          [] dir = "desc" -> down
  BY <1>1, <1>2
<1>4. Len(up) = Len(list) /\ up \in Seq({up[i] : i \in 1 .. Len(list)})
  <2>1. up = [i \in 1 .. Len(list) |-> up[i]]
    OBVIOUS
  <2>2. QED
    BY <1>2, <2>1, IsSeq
<1>5. Len(down) = Len(list) /\ down \in Seq({down[i] : i \in 1 .. Len(list)})
  <2>1. down = [i \in 1 .. Len(up) |-> up[(Len(up) - i) + 1]]
    BY DEF Reverse
  <2> HIDE DEF up
  <2>2. down = [i \in 1 .. Len(list) |-> down[i]]
    BY <1>4, <2>1
  <2>3. QED
    BY <1>2, <2>2, IsSeq
<1> HIDE DEF up, down
<1>6. QED
  BY <1>3, <1>4, <1>5

-----------------------------------------------------------------------------
(* The inductive invariant: the page's state is always a view, and the     *)
(* list is one that the server gave.                                       *)

Urls == Bookmarks \cup {UrlOf(v) : v \in Views} \cup {NoParams}

Entries == [where : {"profile", "job"}, url : Urls]

TypeInv ==
  /\ view \in Views
  /\ jobs \in JobLists
  /\ where \in {"profile", "job"} /\ url \in Urls
  /\ past \in Seq(Entries)

(* What HandlersKeepUrl says of a step.                                    *)
UrlIsKept ==
  \/ where' # "profile"
  \/ ViewOf(url') = view'
  \/ where = "profile" /\ UNCHANGED view /\ past' # past
  \/ UNCHANGED <<view, url, where>>

(* The jobs that match are a list.                                         *)
LEMMA FilteredJobsFacts ==
  ASSUME TypeInv
  PROVE  /\ \E S : FilteredJobs \in Seq(S)
         /\ Len(FilteredJobs) \in Nat
         /\ FilteredJobs # << >> => Len(FilteredJobs) # 0
<1> DEFINE kept == {i \in DOMAIN jobs : view.q = AnyJob \/ jobs[i].name \in view.q}
<1>1. Cardinality(kept) \in Nat
  <2>1. jobs \in Seq(ToSet(jobs))
    BY ProfilePageAssumption DEF TypeInv
  <2>2. \A n \in Nat : IsFiniteSet(1 .. n)
    BY FS_Interval
  <2>3. IsFiniteSet(DOMAIN jobs)
    BY <2>1, <2>2
  <2>4. IsFiniteSet(kept)
    BY <2>3, FS_Subset
  <2>5. QED
    BY <2>4, FS_CardinalityType
<1>2. PICK order :
        FilteredJobs = [n \in 1 .. Cardinality(kept) |-> jobs[order[n]]]
  BY Zenon DEF FilteredJobs
<1> DEFINE k == Cardinality(kept)
<1> HIDE DEF kept
<1>3. k \in Nat /\ FilteredJobs = [n \in 1 .. k |-> jobs[order[n]]]
  BY <1>1, <1>2
<1> HIDE DEF k
<1>4. FilteredJobs = [n \in 1 .. k |-> FilteredJobs[n]]
  BY <1>3
<1>5. /\ FilteredJobs \in Seq({FilteredJobs[i] : i \in 1 .. k})
      /\ Len(FilteredJobs) = k
  BY <1>3, <1>4, IsSeq
<1>6. ASSUME k = 0 PROVE FilteredJobs = << >>
  BY <1>4, <1>6
<1>7. QED
  BY <1>5, <1>6

LEMMA PageIsNumber ==
  ASSUME TypeInv
  PROVE  EffectivePage \in Nat \ {0}
<1>1. view.page \in Nat \ {0} /\ view.pageSize \in Nat \ {0}
  BY ProfilePageAssumption DEF TypeInv, Views
<1>2. QED
  BY <1>1, FilteredJobsFacts, EffectiveFacts DEF EffectivePage

LEMMA InitTypeInv == Init => TypeInv
  BY ViewOfIsView DEF Init, TypeInv, Urls

(* What the handlers change a view to is a view, and Change writes it.     *)
LEMMA ChangeKeeps ==
  ASSUME TypeInv, NEW v \in Views, Change(v)
  PROVE  TypeInv' /\ UrlIsKept
<1>1. view' = v /\ url' = UrlOf(v) /\ UNCHANGED <<jobs, where, past>>
  BY DEF Change
<1>2. UrlOf(v) \in Urls
  BY DEF Urls
<1>3. ViewOf(url') = view'
  BY <1>1, RoundTrip
<1>4. QED
  BY <1>1, <1>2, <1>3 DEF TypeInv, UrlIsKept

LEMMA MountKeeps ==
  ASSUME TypeInv, NEW params \in Urls, Mount(params), UNCHANGED jobs,
         past' \in Seq(Entries)
  PROVE  TypeInv' /\ UrlIsKept
  BY ViewOfIsView DEF TypeInv, UrlIsKept, Mount

(* An entry more or less makes another history.                            *)
LEMMA HistoryMoves ==
  ASSUME TypeInv
  PROVE  /\ Push => past' \in Seq(Entries) /\ past' # past
         /\ past # << >> => /\ Front(past) \in Seq(Entries) /\ Front(past) # past
                            /\ Last(past) \in Entries
<1>1. PICK n \in Nat : n = Len(past)
  BY DEF TypeInv
<1>2. ASSUME Push PROVE past' \in Seq(Entries) /\ past' # past
  <2>1. [where |-> where, url |-> url] \in Entries
    BY DEF TypeInv, Entries
  <2>2. past \in Seq(Entries)
    BY DEF TypeInv
  <2> DEFINE e == [where |-> where, url |-> url]
  <2>3. past' = Append(past, e)
    BY <1>2 DEF Push
  <2> HIDE DEF e
  <2>4. e \in Entries
    BY <2>1 DEF e
  <2>5. Append(past, e) \in Seq(Entries) /\ Len(Append(past, e)) = Len(past) + 1
    BY <2>2, <2>4
  <2>6. QED
    BY <1>1, <2>3, <2>5
<1>3. ASSUME past # << >>
      PROVE  /\ Front(past) \in Seq(Entries) /\ Front(past) # past
             /\ Last(past) \in Entries
  <2>1. past \in Seq(Entries) /\ n > 0
    BY <1>1, <1>3 DEF TypeInv
  <2>2. /\ SubSeq(past, 1, n - 1) \in Seq(Entries)
        /\ Len(SubSeq(past, 1, n - 1)) = n - 1
    BY <1>1, <2>1
  <2>3. Front(past) = SubSeq(past, 1, n - 1) /\ Last(past) = past[n]
    BY <1>1 DEF Front, Last
  <2>4. past[n] \in Entries
    BY <1>1, <2>1
  <2>5. QED
    BY <1>1, <2>2, <2>3, <2>4
<1>4. QED
  BY <1>2, <1>3

(* The page shown with no query string: mounted if it was not, and if it   *)
(* was, a navigation.                                                      *)
LEMMA ShownKeeps ==
  ASSUME TypeInv, ShowProfile, UNCHANGED jobs,
         past' \in Seq(Entries),
         past' # past \/ (where = "profile" /\ url = NoParams)
  PROVE  TypeInv' /\ UrlIsKept
<1>1. NoParams \in Urls
  BY DEF Urls
<1>2. CASE where = "job"
  BY <1>1, <1>2, MountKeeps DEF ShowProfile
<1>3. CASE where # "job"
  <2>1. where = "profile" /\ url' = NoParams /\ UNCHANGED <<view, where>>
    BY <1>3 DEF ShowProfile, TypeInv
  <2>2. QED
    BY <1>1, <2>1 DEF TypeInv, UrlIsKept
<1>4. QED
  BY <1>2, <1>3

LEMMA FirstPage == \A v \in Views : [v EXCEPT !.page = 1] \in Views
  BY DEF Views

LEMMA NextKeeps == TypeInv /\ [Next]_vars => TypeInv' /\ UrlIsKept
<1> SUFFICES ASSUME TypeInv, [Next]_vars PROVE TypeInv' /\ UrlIsKept
  OBVIOUS
<1>1. view \in Views /\ past \in Seq(Entries)
  BY DEF TypeInv
<1>2. CASE HandleSearchChange
  <2>1. PICK text \in Searches \cup {AnyJob} :
          Change([view EXCEPT !.q = text, !.page = 1])
    BY <1>2 DEF HandleSearchChange
  <2>2. [view EXCEPT !.q = text] \in Views
    BY <1>1 DEF Views
  <2>3. [view EXCEPT !.q = text, !.page = 1] \in Views
    BY <2>2, FirstPage
  <2>4. QED
    BY <2>1, <2>3, ChangeKeeps
<1>3. CASE HandleSortClick
  <2>1. PICK column \in Columns :
          Change([SortedBy(view, column) EXCEPT !.page = 1])
    BY <1>3 DEF HandleSortClick
  <2>2. PICK dir \in {"asc", "desc", "none"} :
          SortedBy(view, column) = [view EXCEPT !.sort = column, !.dir = dir]
    <3>1. view.dir \in {"asc", "desc", "none"}
      BY <1>1 DEF Views
    <3>2. NextDirection(view.dir) \in {"asc", "desc", "none"}
      BY <3>1, NextDirectionIsOne
    <3>3. QED
      BY <3>2 DEF SortedBy
  <2>3. SortedBy(view, column) \in Views
    BY <1>1, <2>2 DEF Views
  <2>4. [SortedBy(view, column) EXCEPT !.page = 1] \in Views
    BY <2>3, FirstPage
  <2>5. QED
    BY <2>1, <2>4, ChangeKeeps
<1>4. CASE HandlePageChange
  <2>1. PICK page \in Nat \ {0} : Change([view EXCEPT !.page = page])
    <3>1. EffectivePage \in Nat \ {0}
      BY <1>1, PageIsNumber
    <3>2. CASE EffectivePage > 1 /\ Change([view EXCEPT !.page = EffectivePage - 1])
      BY <3>1, <3>2
    <3>3. CASE Change([view EXCEPT !.page = EffectivePage + 1])
      <4>1. EffectivePage + 1 \in Nat \ {0}
        BY <3>1
      <4>2. QED
        BY <3>3, <4>1, Zenon
    <3>4. QED
      BY <1>4, <3>2, <3>3 DEF HandlePageChange
  <2>2. [view EXCEPT !.page = page] \in Views
    BY <1>1 DEF Views
  <2>3. QED
    BY <2>1, <2>2, ChangeKeeps
<1>5. CASE HandlePageSizeChange
  <2>1. PICK size \in PageSizes :
          Change([view EXCEPT !.pageSize = size, !.page = 1])
    BY <1>5 DEF HandlePageSizeChange
  <2>2. [view EXCEPT !.pageSize = size] \in Views
    BY <1>1 DEF Views
  <2>3. [view EXCEPT !.pageSize = size, !.page = 1] \in Views
    BY <2>2, FirstPage
  <2>4. QED
    BY <2>1, <2>3, ChangeKeeps
<1>6. CASE OpenJob
  <2>1. where' = "job" /\ url' = NoParams /\ Push /\ UNCHANGED <<view, jobs>>
    BY <1>6 DEF OpenJob, Follow
  <2>2. NoParams \in Urls
    BY DEF Urls
  <2>3. QED
    BY <2>1, <2>2, HistoryMoves DEF TypeInv, UrlIsKept
<1>7. CASE OpenProfile
  <2>1. ShowProfile /\ UNCHANGED jobs
    BY <1>7 DEF OpenProfile, Follow
  <2>2. (past' = past /\ where = "profile" /\ url = NoParams) \/ Push
    BY <1>7 DEF OpenProfile, Follow
  <2>3. /\ past' \in Seq(Entries)
        /\ past' # past \/ (where = "profile" /\ url = NoParams)
    BY <1>1, <2>2, HistoryMoves
  <2>4. QED
    BY <2>1, <2>3, ShownKeeps
<1>8. CASE Back
  <2> DEFINE entry == Last(past)
  <2>1. /\ UNCHANGED jobs /\ past # << >> /\ past' = Front(past)
        /\ IF where = "job" /\ entry.where = "profile" THEN Mount(entry.url)
           ELSE /\ url' = entry.url
                /\ where' = entry.where
                /\ UNCHANGED view
    BY <1>8 DEF Back
  <2>2. /\ past' \in Seq(Entries) /\ past' # past /\ entry \in Entries
    BY <2>1, HistoryMoves
  <2> HIDE DEF entry
  <2>3. entry.url \in Urls /\ entry.where \in {"profile", "job"}
    BY <2>2 DEF Entries
  <2>4. CASE Mount(entry.url)
    BY <2>1, <2>2, <2>3, <2>4, MountKeeps
  <2>5. CASE /\ ~(where = "job" /\ entry.where = "profile")
             /\ url' = entry.url
             /\ where' = entry.where
             /\ UNCHANGED view
    <3>1. where' # "profile" \/ where = "profile"
      BY <2>5 DEF TypeInv
    <3>2. QED
      BY <2>1, <2>2, <2>3, <2>5, <3>1 DEF TypeInv, UrlIsKept
  <2>6. QED
    BY <2>1, <2>4, <2>5
<1>9. CASE Switch
  BY <1>9 DEF Switch, TypeInv, UrlIsKept
<1>10. CASE Land
  <2>1. /\ Push /\ UNCHANGED jobs
        /\ \/ ShowProfile
           \/ where' = "job" /\ url' = NoParams /\ UNCHANGED view
    BY <1>10 DEF Land
  <2>2. past' \in Seq(Entries) /\ past' # past
    BY <2>1, HistoryMoves
  <2>3. NoParams \in Urls
    BY DEF Urls
  <2>4. CASE ShowProfile
    BY <2>1, <2>2, <2>4, ShownKeeps
  <2>5. CASE where' = "job" /\ url' = NoParams /\ UNCHANGED view
    BY <2>1, <2>2, <2>3, <2>5 DEF TypeInv, UrlIsKept
  <2>6. QED
    BY <2>1, <2>4, <2>5
<1>11. CASE Reload
  <2>1. Mount(url) /\ url \in Urls /\ UNCHANGED <<jobs, past>>
    BY <1>11 DEF Reload, TypeInv
  <2>2. QED
    BY <1>1, <2>1, MountKeeps
<1>12. CASE Refresh
  BY <1>12 DEF Refresh, TypeInv, UrlIsKept
<1>13. CASE UNCHANGED vars
  BY <1>13 DEF vars, TypeInv, UrlIsKept
<1>14. QED
  BY <1>2, <1>3, <1>4, <1>5, <1>6, <1>7, <1>8, <1>9, <1>10, <1>11, <1>12, <1>13
  DEF Next

(* The inductive invariant: what the page keeps in its state is always a   *)
(* view that it accepts, whatever it was opened with.                      *)
THEOREM SpecTypeInv == Spec => []TypeInv
  BY InitTypeInv, NextKeeps, PTL DEF Spec

(* ProfilePage.tsx: after every click on the page, in any state, also one  *)
(* in which URL and view had come apart, reading the URL gives the view    *)
(* that is on the screen, and so does every mounting; what parts them is a *)
(* link, a profile switch or Back that finds the page mounted, and nothing *)
(* else.                                                                   *)
THEOREM SpecHandlersKeepUrl == Spec => HandlersKeepUrl
<1>1. TypeInv /\ [Next]_vars =>
        [\/ where' # "profile"
         \/ ViewOf(url') = view'
         \/ where = "profile" /\ UNCHANGED view /\ past' # past]_<<view, url, where>>
  BY NextKeeps DEF UrlIsKept
<1>2. QED
  BY <1>1, SpecTypeInv, PTL DEF Spec, HandlersKeepUrl

-----------------------------------------------------------------------------

LEMMA PageNotEmpty == TypeInv => NoEmptyPage
<1> SUFFICES ASSUME TypeInv, FilteredJobs # << >> PROVE PaginatedJobs # << >>
  BY DEF NoEmptyPage
<1>1. /\ view.page \in Nat \ {0} /\ view.pageSize \in Nat \ {0}
      /\ view.dir \in {"asc", "desc", "none"}
  BY ProfilePageAssumption DEF TypeInv, Views
<1>2. (EffectivePage - 1) * view.pageSize < Len(FilteredJobs)
  BY <1>1, FilteredJobsFacts, EffectiveFacts DEF EffectivePage
<1>3. PICK S : FilteredJobs \in Seq(S)
  BY FilteredJobsFacts
<1>4. PICK T : /\ SortedJobs \in Seq(T)
               /\ Len(SortedJobs) = Len(FilteredJobs)
  BY <1>1, <1>3, SortKeepsLength DEF SortedJobs
<1>5. QED
  BY <1>1, <1>2, <1>4, PageIsNumber, SliceNotEmpty DEF PaginatedJobs

(* ProfilePage.tsx clamps the page it shows and never resets the page it   *)
(* was asked for: however the list shrinks between two polls, and whatever *)
(* page a bookmark asks for, jobs that match are shown.                    *)
THEOREM SpecNoEmptyPage == Spec => []NoEmptyPage
  BY PageNotEmpty, SpecTypeInv, PTL
=============================================================================
