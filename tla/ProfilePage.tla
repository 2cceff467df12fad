---------------------------- MODULE ProfilePage ----------------------------
(***************************************************************************)
(* frontend/src/pages/ProfilePage.tsx: the job list of one profile, which  *)
(* the page itself searches, sorts and pages, and the URL that keeps the   *)
(* view; with the links and the profile switch of Layout.tsx and the       *)
(* browser's Back, which change the URL.  Layout keys the page by profile  *)
(* and job, so that what leads to the profile the page already shows does  *)
(* not mount it anew.                                                      *)
(*                                                                         *)
(* A job is a record of numbers in the order that its strings and times    *)
(* have; a search text is the set of names that contain it.                *)
(***************************************************************************)
EXTENDS TableView, SequencesExt

CONSTANTS
  JobLists,        \* the job lists the server may answer with
  Searches,        \* what the user types
  AnyJob,          \* the empty search text
  PageSizes,       \* 25, 50, 100, 200
  DefaultSize,     \* 50
  Bookmarks,       \* the query strings the page may be opened with
  MaxActs          \* bound: what the user does

ASSUME ProfilePageAssumption ==
  /\ \A list \in JobLists : list \in Seq(ToSet(list))
  /\ PageSizes \subseteq Nat \ {0} /\ DefaultSize \in Nat \ {0}

VARIABLES
  view,            \* the page's state, by parameter
  jobs,            \* the job list shown
  where,           \* "profile", or "job" for the page of one of its jobs,
                   \* or of a job of the same ID in another profile
  url,             \* the query string of the page shown
  past,            \* the browser's history before it: <<[where, url]>>
  switching,       \* a profile switch to this profile, from a job's page,
                   \* is under way (Layout)
  acts

vars == <<view, jobs, where, url, past, switching, acts>>

Columns == {"name", "status", "deploymentStatus", "submitTime"}

DefaultView == [q |-> AnyJob, sort |-> "submitTime", dir |-> "desc",
                page |-> 1, pageSize |-> DefaultSize]

Valid(p) ==
  CASE p = "q" -> Searches
    [] p = "sort" -> Columns
    [] p = "dir" -> {"asc", "desc", "none"}
    [] p = "page" -> Nat \ {0}
    [] p = "pageSize" -> PageSizes

ViewOf(params) ==
  Parse(params, DefaultView, {p \in DOMAIN params : params[p] \in Valid(p)})

UrlOf(v) == Build(v, DefaultView)

NoParams == [p \in {} |-> 0]

-----------------------------------------------------------------------------
(* What is rendered: filtered, sorted (a stable sort, read backwards for   *)
(* "desc") and cut to the page.                                            *)

FilteredJobs ==
  LET kept == {i \in DOMAIN jobs : view.q = AnyJob \/ jobs[i].name \in view.q}
      order == SetToSortSeq(kept, <)
  IN  [n \in 1 .. Cardinality(kept) |-> jobs[order[n]]]

SortJobs(list, column, dir) ==
  LET Before(m, n) == \/ list[m][column] < list[n][column]
                      \/ list[m][column] = list[n][column] /\ m < n
      order == SetToSortSeq(DOMAIN list, Before)
      up == [n \in DOMAIN list |-> list[order[n]]]
  IN  CASE dir = "none" -> list
        [] dir = "asc"  -> up
        [] dir = "desc" -> Reverse(up)

SortedJobs == SortJobs(FilteredJobs, view.sort, view.dir)

TotalPages == PagesOf(Len(FilteredJobs), view.pageSize)

(* Mutant: the page is not clamped. *)
EffectivePageAsGiven == view.page

EffectivePage == Effective(view.page, Len(FilteredJobs), view.pageSize)

PaginatedJobs == Slice(SortedJobs, EffectivePage, view.pageSize)

-----------------------------------------------------------------------------
(* The handlers.  Each replaces the URL by that of the whole new view.     *)

Act == acts < MaxActs /\ acts' = acts + 1

Change(v) ==
  /\ where = "profile"
  /\ Act
  /\ view' = v
  /\ url' = UrlOf(v)
  /\ UNCHANGED <<jobs, where, past, switching>>

HandleSearchChange ==
  /\ jobs # <<>>
  /\ \E text \in (Searches \cup {AnyJob}) \ {view.q} :
       Change([view EXCEPT !.q = text, !.page = 1])

HandleSortClick ==
  /\ SortedJobs # <<>>
  /\ \E column \in Columns : Change([SortedBy(view, column) EXCEPT !.page = 1])

HandlePageChange ==
  /\ SortedJobs # <<>>
  /\ \/ EffectivePage > 1 /\ Change([view EXCEPT !.page = EffectivePage - 1])
     \/ EffectivePage < TotalPages
          /\ Change([view EXCEPT !.page = EffectivePage + 1])

HandlePageSizeChange ==
  /\ SortedJobs # <<>>
  /\ \E size \in PageSizes \ {view.pageSize} :
       Change([view EXCEPT !.pageSize = size, !.page = 1])

-----------------------------------------------------------------------------
(* Going from page to page.                                                *)

(* The page is mounted: its state is read from the URL.                    *)
Mount(params) ==
  /\ where' = "profile"
  /\ url' = params
  /\ view' = ViewOf(params)

(* The page is shown with no query string: mounted if it was not.          *)
ShowProfile ==
  IF where = "job" THEN Mount(NoParams)
  ELSE url' = NoParams /\ UNCHANGED <<view, where>>

Push == past' = Append(past, [where |-> where, url |-> url])

(* A link within the application, to a page with no query string.  A link  *)
(* to where one is replaces the history entry.                             *)
Follow(page) ==
  /\ Act
  /\ IF page = where /\ url = NoParams THEN UNCHANGED past ELSE Push
  /\ UNCHANGED <<jobs, switching>>

OpenJob ==
  /\ where = "profile"
  /\ PaginatedJobs # <<>>
  /\ Follow("job")
  /\ where' = "job" /\ url' = NoParams
  /\ UNCHANGED view

(* The profile's name in the breadcrumb: from a job's page it mounts the   *)
(* profile page, on the profile page it only changes the URL.              *)
OpenProfile == Follow("profile") /\ ShowProfile

Back ==
  /\ past # <<>>
  /\ Act
  /\ past' = Front(past)
  /\ LET entry == Last(past)
     IN  IF where = "job" /\ entry.where = "profile" THEN Mount(entry.url)
         ELSE /\ url' = entry.url
              /\ where' = entry.where
              /\ UNCHANGED view
  /\ UNCHANGED <<jobs, switching>>

(* On a job's page in another profile the user selects this one: Layout    *)
(* looks the job up, and goes on when that has ended.                      *)
Switch ==
  /\ where = "job" /\ ~switching
  /\ Act
  /\ switching' = TRUE
  /\ UNCHANGED <<view, jobs, where, url, past>>

(* Wherever the user is by then, navigate leads to the profile's page, or  *)
(* to the job's if this profile has that job.                              *)
Land ==
  /\ switching /\ switching' = FALSE
  /\ Push
  /\ \/ ShowProfile
     \/ where' = "job" /\ url' = NoParams /\ UNCHANGED view
  /\ UNCHANGED <<jobs, acts>>

Reload ==
  /\ where = "profile"
  /\ Act
  /\ Mount(url)
  /\ switching' = FALSE
  /\ UNCHANGED <<jobs, past>>

(* An answer to one of the polls.                                          *)
Refresh ==
  /\ jobs' \in JobLists \ {jobs}
  /\ UNCHANGED <<view, where, url, past, switching, acts>>

Init ==
  /\ jobs \in JobLists
  /\ where = "profile"
  /\ url \in Bookmarks
  /\ view = ViewOf(url)
  /\ past = <<>>
  /\ switching \in BOOLEAN
  /\ acts = 0

Next ==
  \/ HandleSearchChange \/ HandleSortClick \/ HandlePageChange
  \/ HandlePageSizeChange \/ OpenJob \/ OpenProfile \/ Back \/ Switch
  \/ Land \/ Reload \/ Refresh

Spec == Init /\ [][Next]_vars

-----------------------------------------------------------------------------
(* Properties. *)

(* "Reloading the page restores the exact same view": what the URL says is *)
(* what the page's state is.                                               *)
UrlRestoresView == where = "profile" => ViewOf(url) = view

(* After every click on the page, from any state, the URL is that of the   *)
(* view, even when it was another's before; so is it whenever the page is  *)
(* mounted.  Only a navigation that finds the page mounted, an entry more  *)
(* or less in the history, parts the two.                                  *)
HandlersKeepUrl ==
  [][\/ where' # "profile"
     \/ ViewOf(url') = view'
     \/ where = "profile" /\ UNCHANGED view /\ past' # past]_<<view, url, where>>

(* Whatever the view and however the list has shrunk, jobs that match are  *)
(* shown: no empty page beside a list that is not.                         *)
NoEmptyPage == FilteredJobs # <<>> => PaginatedJobs # <<>>
=============================================================================
