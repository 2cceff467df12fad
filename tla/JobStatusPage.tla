--------------------------- MODULE JobStatusPage ---------------------------
(***************************************************************************)
(* frontend/src/pages/JobStatusPage.tsx: the view its user chooses, the    *)
(* URL that keeps it, and what the page shows: through the query cache,    *)
(* the server's table for the view, or what it showed before.              *)
(*                                                                         *)
(* The server's state is the list of the job's allocations.  Every change  *)
(* of the view sets the state and replaces the URL in one event, which     *)
(* React renders before the next.                                          *)
(*                                                                         *)
(* Layout.tsx keys the page by profile and job: what navigates to the page *)
(* that is already there, a profile switch that ends late or Back between  *)
(* two entries of the history, changes the URL under the mounted page.     *)
(***************************************************************************)
EXTENDS QueryCache, Allocations, TableView

CONSTANTS
  Lists,              \* the job's allocations, as they may be
  Searches,           \* what the user types into the search box
  Texts,              \* by filter: what the URL may say, any text
  Headers,            \* the columns the user clicks
  PageSizes,          \* 25, 50, 100, 200
  DefaultSize,        \* 50
  VersionPageSizes,   \* 5, 10, 25, 50
  DefaultVersionSize, \* 5
  Bookmarks,          \* the query strings the page may be opened with
  KnownTimes, NodeIP, Now,  \* what else the server's answer is made from
  MaxActs             \* bound: what the user does

(* The names of the sort's columns, the page sizes with their defaults, and *)
(* stubs whose version, node and task group are numbers; the options of a  *)
(* filter are texts.                                                       *)
ASSUME JobStatusPageAssumption ==
  /\ Nothing \notin Lists
  /\ \A list \in Lists :
       /\ list \in Seq(ToSet(list))
       /\ \A s \in ToSet(list) :
            \A field \in {"taskGroup", "version", "node"} :
              s[field] \in Nat \cap Texts[field]
  /\ ClientStatuses \subseteq Texts["status"]
  /\ Headers \subseteq SortColumns
  /\ PageSizes \subseteq Nat \ {0} /\ DefaultSize \in PageSizes
  /\ VersionPageSizes \subseteq Nat \ {0}
  /\ DefaultVersionSize \in VersionPageSizes

VARIABLES
  view,               \* the page's state, by parameter
  url,                \* the query string
  past,               \* the browser's history before it, as far as it was
                      \* made here: a query string of this page, or Nothing
                      \* for other pages
  switching,          \* a profile switch to this page's profile, from the
                      \* job of the same ID, is under way (Layout)
  acts, changes       \* what was done so far, for the bounds

pageVars == <<view, url, past, switching, acts>>
vars == <<cacheVars, pageVars, changes>>

-----------------------------------------------------------------------------
FilterKeys == {"taskGroup", "version", "node", "status"}

DefaultView ==
  [q |-> AnyValue, taskGroup |-> AnyValue, version |-> AnyValue,
   node |-> AnyValue, status |-> AnyValue,
   sort |-> "lastModified", dir |-> "asc",
   page |-> 1, pageSize |-> DefaultSize,
   versionPage |-> 1, versionPageSize |-> DefaultVersionSize]

(* The values a page accepts of a parameter; anything for a text.          *)
Valid(p) ==
  CASE p = "sort" -> SortColumns
    [] p = "dir"  -> {"asc", "desc", "none"}
    [] p \in {"page", "versionPage"} -> Nat \ {0}
    [] p = "pageSize" -> PageSizes
    [] p = "versionPageSize" -> VersionPageSizes
    [] p = "q" -> Searches
    [] p \in FilterKeys -> Texts[p]

ViewOf(params) ==
  Parse(params, DefaultView, {p \in DOMAIN params : params[p] \in Valid(p)})

UrlOf(v) == Build(v, DefaultView)

NoParams == [p \in {} |-> 0]

(* The query key: all of the view but the pages of the version list.  An   *)
(* unsorted table is asked for without a column.                           *)
KeyOf(v) ==
  [filters |-> [search |-> v.q, taskGroup |-> v.taskGroup,
                version |-> v.version, node |-> v.node,
                status |-> v.status, desired |-> AnyValue],
   column |-> IF v.dir = "none" THEN "" ELSE v.sort,
   dir |-> IF v.dir = "none" THEN "" ELSE v.dir,
   page |-> v.page, pageSize |-> v.pageSize]

-----------------------------------------------------------------------------
(* What is rendered.                                                       *)

Ready == key # Nothing /\ ~Failed /\ Shown # Nothing

Data == Table(Shown.data, KnownTimes, NodeIP, Now, Shown.key)

(* Mutant: only the dropdowns count. *)
HasActiveDropdowns == \E p \in FilterKeys : view[p] # DefaultView[p]

HasActiveFilters ==
  \E p \in FilterKeys \cup {"q"} \cup SortParams : view[p] # DefaultView[p]

NoAllocationsAtAll == ~HasActiveFilters /\ Data.totalItems = 0

(* The search box and the filters; below them, the table.                  *)
FilterBar == Ready /\ ~NoAllocationsAtAll

TableShown == FilterBar /\ Data.totalItems > 0

VersionPage ==
  Effective(view.versionPage, Len(Data.groups), view.versionPageSize)

VersionGroups == Slice(Data.groups, VersionPage, view.versionPageSize)

-----------------------------------------------------------------------------
(* One user event: the new state, the new URL and the new query.           *)

Act == acts < MaxActs /\ acts' = acts + 1

Change(v) ==
  /\ Act
  /\ view' = v
  /\ url' = UrlOf(v)
  /\ IF KeyOf(v) = key THEN UNCHANGED cacheVars ELSE Observe(KeyOf(v))
  /\ UNCHANGED <<past, switching, changes>>

HandleSearchChange ==
  /\ FilterBar
  /\ \E text \in Searches \cup {AnyValue} :
       /\ text # view.q
       /\ Change([view EXCEPT !.q = text, !.page = 1])

(* The options of a dropdown come from the answer shown, but for the       *)
(* statuses, which are fixed.                                              *)
OptionsFor(p) ==
  CASE p = "taskGroup" -> ToSet(Data.options.taskGroups)
    [] p = "version"   -> ToSet(Data.options.versions)
    [] p = "node"      -> ToSet(Data.options.nodes)
    [] p = "status"    -> ClientStatuses

SetFilter ==
  /\ FilterBar
  /\ \E p \in FilterKeys :
       \E value \in (OptionsFor(p) \cup {AnyValue}) \ {view[p]} :
         Change([view EXCEPT ![p] = value, !.page = 1])

HandleVersionStatusClick ==
  /\ Ready
  /\ \E group \in ToSet(VersionGroups) :
       \E status \in {c \in ClientStatuses : group.counts[c] > 0} :
         Change([view EXCEPT !.version = group.version, !.status = status,
                             !.page = 1])

HandleSortClick ==
  /\ TableShown
  /\ \E column \in Headers :
       Change([SortedBy(view, column) EXCEPT !.page = 1])

(* Previous and Next count from the page of the answer shown.              *)
HandlePageChange ==
  /\ TableShown
  /\ \/ Data.page > 1 /\ Change([view EXCEPT !.page = Data.page - 1])
     \/ Data.page < Data.totalPages
          /\ Change([view EXCEPT !.page = Data.page + 1])

HandlePageSizeChange ==
  /\ TableShown
  /\ \E size \in PageSizes \ {view.pageSize} :
       Change([view EXCEPT !.pageSize = size, !.page = 1])

(* Mutant: the version list's page is written to the URL and not kept. *)
HandleVersionPageChangeInUrl ==
  /\ Ready /\ Data.groups # <<>>
  /\ Act
  /\ \E n \in {VersionPage - 1, VersionPage + 1} :
       /\ n \in 1..PagesOf(Len(Data.groups), view.versionPageSize)
       /\ url' = UrlOf([view EXCEPT !.versionPage = n])
  /\ UNCHANGED <<cacheVars, view, past, switching, changes>>

HandleVersionPageChange ==
  /\ Ready /\ Data.groups # <<>>
  /\ \E n \in {VersionPage - 1, VersionPage + 1} :
       /\ n \in 1..PagesOf(Len(Data.groups), view.versionPageSize)
       /\ Change([view EXCEPT !.versionPage = n])

HandleVersionPageSizeChange ==
  /\ Ready /\ Data.groups # <<>>
  /\ \E size \in VersionPageSizes \ {view.versionPageSize} :
       Change([view EXCEPT !.versionPageSize = size, !.versionPage = 1])

HandleClearFilters ==
  /\ FilterBar
  /\ HasActiveFilters
  /\ Change([DefaultView EXCEPT !.pageSize = view.pageSize,
                                !.versionPage = view.versionPage,
                                !.versionPageSize = view.versionPageSize])

Handlers ==
  /\ acts < MaxActs
  /\ \/ HandleSearchChange \/ SetFilter \/ HandleVersionStatusClick
     \/ HandleSortClick \/ HandlePageChange \/ HandlePageSizeChange
     \/ HandleVersionPageChange \/ HandleVersionPageSizeChange
     \/ HandleClearFilters

-----------------------------------------------------------------------------
(* Going from page to page.  The state is read from the URL when the page  *)
(* is mounted, and only then.                                              *)

(* The page is opened, or returned to while a switch is under way.         *)
Init ==
  /\ url \in Bookmarks
  /\ view = ViewOf(url)
  /\ server \in Lists
  /\ CacheInit(KeyOf(view))
  /\ past = <<>>
  /\ switching \in BOOLEAN
  /\ acts = 0 /\ changes = 0

Mount(params) ==
  /\ url' = params
  /\ view' = ViewOf(params)
  /\ Observe(KeyOf(view'))

(* navigate, and a link, add an entry to the history.                      *)
Push == past' = Append(past, IF key = Nothing THEN Nothing ELSE url)

GoAway == Act /\ Leave /\ Push /\ UNCHANGED <<view, url, switching, changes>>

(* A link to the page: it has no query string.                             *)
Open ==
  /\ key = Nothing
  /\ Act
  /\ Mount(NoParams)
  /\ Push
  /\ UNCHANGED <<switching, changes>>

(* Back in the browser: to this page, whose cache entries are still there; *)
(* from it to another; or between two entries of the mounted page.         *)
Back ==
  /\ past # <<>>
  /\ Act
  /\ past' = Front(past)
  /\ \/ key = Nothing /\ Mount(Last(past))
     \/ key # Nothing /\ Last(past) = Nothing /\ Leave /\ UNCHANGED <<view, url>>
     \/ /\ key # Nothing /\ Last(past) # Nothing
        /\ url' = Last(past)
        /\ UNCHANGED <<view, cacheVars>>
  /\ UNCHANGED <<switching, changes>>

(* On the page of another profile's job of the same ID, the user selects   *)
(* this profile: Layout looks the job up, and goes on when that has ended. *)
Switch ==
  /\ key = Nothing /\ ~switching
  /\ Act
  /\ switching' = TRUE
  /\ UNCHANGED <<cacheVars, view, url, past, changes>>

(* The job is there.  Wherever the user is by then, navigate leads to this *)
(* page; if it is mounted it stays so, with its state.                     *)
Land ==
  /\ switching /\ switching' = FALSE
  /\ IF key = Nothing THEN Mount(NoParams)
     ELSE url' = NoParams /\ UNCHANGED <<view, cacheVars>>
  /\ Push
  /\ UNCHANGED <<acts, changes>>

(* It is not, or the lookup fails: navigate leads to the profile's page.   *)
LandElsewhere ==
  /\ switching /\ switching' = FALSE
  /\ IF key = Nothing THEN UNCHANGED <<cacheVars, past>> ELSE Leave /\ Push
  /\ UNCHANGED <<view, url, acts, changes>>

Reload ==
  /\ key # Nothing
  /\ Act
  /\ view' = ViewOf(url)
  /\ key' = KeyOf(view')
  /\ queries' = [k \in {key'} |-> Asked(NewEntry)]
  /\ held' = Nothing /\ paused' = FALSE
  /\ switching' = FALSE
  /\ UNCHANGED <<server, visible, failures, url, past, changes>>

Navigation ==
  GoAway \/ Open \/ Back \/ Switch \/ Land \/ LandElsewhere \/ Reload

AllocationsChange ==
  /\ changes < MaxChanges
  /\ changes' = changes + 1
  /\ server' \in Lists \ {server}
  /\ UNCHANGED <<queries, key, held, paused, visible, failures, pageVars>>

(* Pausing and hiding the tab, failed requests and dropped cache entries   *)
(* do not touch the page's state: JobStatusQuery has them.                 *)
Background == (Poll \/ Requests) /\ UNCHANGED <<pageVars, changes>>

Next ==
  Handlers \/ Navigation \/ AllocationsChange \/ Background

Spec == Init /\ [][Next]_vars

-----------------------------------------------------------------------------
(* Properties. *)

(* Whatever is clicked, the URL is then that of the view, and the query    *)
(* the view's, even when the URL was another's before; so are they         *)
(* whenever the page is mounted.  Only a navigation that finds the page    *)
(* mounted, an entry more or less in the history, parts URL and view.      *)
HandlersKeepUrl ==
  [][\/ key' = Nothing
     \/ ViewOf(url') = view' /\ key' = KeyOf(view')
     \/ key' = key /\ UNCHANGED view /\ past' # past]_<<view, url, key>>

(* As soon as the answer to the view is there, the view hides nothing: a   *)
(* job with allocations has its search box and filters, also when they     *)
(* find nothing, and a list that has rows shows some of them, whatever     *)
(* page was asked for before the list shrank.                              *)
NothingHidden ==
  Ready /\ Shown.key = key =>
    /\ Shown.data # <<>> => FilterBar /\ VersionGroups # <<>>
    /\ LET table == Data IN table.totalItems > 0 => table.rows # <<>>

-----------------------------------------------------------------------------
(* What the sources say and the code does not do.                          *)

(* "Reloading the page or opening a bookmarked/shared link restores the    *)
(* exact same view": what the URL says is what the page's state is.        *)
UrlRestoresView == key # Nothing => ViewOf(url) = view

(* The search box and the dropdowns of a job that is shown to have         *)
(* allocations are there while the user works with them ("keeping the      *)
(* previous page's data visible during the refetch avoids that flicker and *)
(* focus loss").                                                           *)
FilterBarStays == Ready /\ Shown.data # <<>> => FilterBar

(* "Previous/Next buttons step through pages": no page is skipped.         *)
PagesStepByStep == [][view'.page <= view.page + 1]_view
=============================================================================
