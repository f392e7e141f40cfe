------------------------------- MODULE Picker -------------------------------
(***************************************************************************)
(* pickerField, the question answered with names found in a package index, *)
(* on its page of the recipe form: the pages before it, whose answers      *)
(* decide which index is opened, the page itself, and the summary page     *)
(* that asks whether to write.                                             *)
(*                                                                         *)
(* One update loop handles keys, timers and the messages of commands.  The *)
(* openings of the index (module Indexes) run beside it; a finished one    *)
(* leaves its result in its load and sends a message to whatever page is   *)
(* on by then.  The focused field of a group is handed every message       *)
(* twice; only of a timer does the second copy do anything.  Layout, hints *)
(* and scrolling are left out.                                             *)
(***************************************************************************)
EXTENDS Indexes

CONSTANTS
  Names,        \* names an answer may hold
  Texts,        \* what the query may be: names, parts of names, anything
  Typed,        \* bound: the texts typed
  Order,        \* the names, sorted
  Holds,        \* the names a repository has
  SectionOf,    \* a name's section, or None
  Spelling,     \* the name PyPI publishes a project of this name as
  Folded,       \* a name in lower case
  CatalogChosen,    \* the names chosen in the catalog on the same page
  Lists,        \* bound: lists that are pasted
  Starts,       \* bound: answers the field starts with
  MaxKeys,      \* bound: keys pressed
  MaxChanges    \* bound: answers changed on the earlier pages

ASSUME NamesAssumption ==
  /\ Names \cup Typed \subseteq Texts /\ "" \in Texts \ Names
  /\ Range(Order) = Names /\ \A n \in Names : Spelling[n] \in Names
ASSUME KeysAssumption == MaxKeys \in Nat /\ MaxChanges \in Nat

VARIABLES
  page,         \* "before", "picker", "after", "summary" or "done"
  request,      \* what the answers so far ask of an index
  chosen,       \* the answer; the value it is stored as is left out
  query, section, rows, cursor,
  choosing,     \* the section list is open, on sectionCursor
  sectionCursor,
  nudged,       \* Enter was held back for the query
  load,         \* the load of this field, or None
  messages,     \* pickerLoadedMsg under way
  ticking,      \* the newest timer that redraws the progress is under way
  rest,         \* the newest rest of the cursor whose timer is under way, or
                \* None: the timers of those before it are ignored
  lookups, known, \* summaries being looked up, and known
  preview,      \* what the summary page's warning was computed from
  keys, changes,
  warned        \* history: the query Enter was held back for in this visit

fieldVars   == <<chosen, query, section, rows, cursor, choosing, sectionCursor, nudged>>
summaryVars == <<rest, lookups, known>>
pickerVars  == <<page, request, fieldVars, load, messages, ticking, summaryVars, preview,
                 keys, changes, warned>>
vars == <<indexVars, pickerVars>>

IsPython == request.archive = PyPI
Row == [name : Texts, asTyped : BOOLEAN, unknown : BOOLEAN]

(* index(): what the load holds once it has ended without an error.        *)
LoadedIn(ls, cs) ==
  IF ls # None /\ cs[ls].at = "ended" THEN cs[ls].answer ELSE None
Index == LoadedIn(load, calls)
Loading == load # None /\ calls[load].at # "ended"

NamesIn(index) ==
  UNION {Holds[r] : r \in {q \in Repos : index.searched[q] # "none"}}
(* Ubuntu's and Fedora's indexes hold a name as it is; PyPI's compares as  *)
(* PEP 503 does.                                                           *)
Published(python, name) == IF python THEN Spelling[name] ELSE name
Has(python, index, name) ==
  name \in Names /\ Published(python, name) \in NamesIn(index)

-----------------------------------------------------------------------------
(* refresh: the list for the query, the section and the index.             *)

RowOf(name) == [name |-> name, asTyped |-> FALSE, unknown |-> FALSE]

(* With nothing asked, the list is the answer, for looking over.           *)
ChosenRows(python, names, index) ==
  [n \in DOMAIN names |->
     [RowOf(names[n]) EXCEPT
        !.unknown = index # None /\ ~Has(python, index, names[n])]]

(* Search: the exact name, then the others that contain the query.         *)
CONSTANT Matches(_, _)
Search(python, index, q, s) ==
  LET found(name) == /\ name \in NamesIn(index)
                     /\ s # None => SectionOf[name] = s
                     /\ \/ q \in Names /\ Published(python, q) = name
                        \/ Matches(name, q)
      all == SelectSeq(Order, found)
      exact(name) == q \in Names /\ name = Published(python, q)
      other(name) == ~exact(name)
  IN  SelectSeq(all, exact) \o SelectSeq(all, other)

(* A whole name is offered first, as typed when the index lacks it, and    *)
(* not beside its own row under the spelling it is published as.           *)
Rows(python, names, q, s, index) ==
  IF q = "" /\ s = None THEN ChosenRows(python, names, index)
  ELSE LET found == IF index = None THEN <<>> ELSE Search(python, index, q, s)
           list  == [n \in DOMAIN found |-> RowOf(found[n])]
           shown == /\ list # <<>> /\ q \in Names
                    /\ \/ list[1].name = q
                       \/ Has(python, index, q) /\ list[1].name = Published(python, q)
       IN  IF q \notin Names \/ shown THEN list
           ELSE <<IF index # None /\ Has(python, index, q)
                  THEN RowOf(Published(python, q))
                  ELSE [RowOf(q) EXCEPT !.asTyped = TRUE]>> \o list

Refresh ==
  /\ rows' = Rows(IsPython, chosen', query', section', Index)
  /\ cursor' = 1

Highlighted(cs, rs, c) ==
  IF cs \/ c \notin DOMAIN rs THEN None ELSE rs[c].name

(* scheduleSummary: a rest of the cursor on a row PyPI may say more of.    *)
Rest(focused, index) ==
  LET name == Highlighted(choosing', rows', cursor')
  IN  IF ~IsPython \/ index = None \/ name = None \/ ~focused \/ name \in known
      THEN UNCHANGED summaryVars
      ELSE /\ rest' = [name |-> name, copies |-> 2]
           /\ UNCHANGED <<lookups, known>>

-----------------------------------------------------------------------------
(* Focus: the index is opened, or opened again if the answers it is made   *)
(* of have changed or a repository was left out.                           *)

Incomplete ==
  /\ calls[load].at = "ended"
  /\ calls[load].answer = None \/ ~IsWhole(calls[load].answer)

MustOpenOnce == load = None \/ Incomplete
MustOpen == load = None \/ calls[load].request # request \/ Incomplete

(* The load that gives way is canceled; nobody reads what it is answered.  *)
Superseded(call) == IF call.at = "ended" THEN Idle ELSE CancelCall(call)

Focus ==
  /\ page \in {"before", "after"} /\ page' = "picker"
  /\ nudged' = FALSE /\ warned' = None
  /\ IF MustOpen
     THEN \E l \in Loads :
            /\ l # load /\ calls[l].at \in {"idle", "ended"}
            /\ calls' = [k \in Loads |->
                 IF k = l THEN [Idle EXCEPT !.at = "asked", !.request = request]
                 ELSE IF k = load THEN Superseded(calls[k]) ELSE calls[k]]
            /\ load' = l
     ELSE UNCHANGED <<calls, load>>
  /\ ticking' = (calls'[load'].at # "ended")
  /\ UNCHANGED <<chosen, query, section, choosing, sectionCursor>>
  /\ rows' = Rows(IsPython, chosen, query, section, LoadedIn(load', calls')) /\ cursor' = 1
  /\ Rest(TRUE, LoadedIn(load', calls'))
  /\ UNCHANGED <<refresh, cache, opened, kept, request, messages, preview, keys,
                 changes>>

(* Next and Prev leave the page: Blur.  The pages before hold the answers  *)
(* the index is made of.                                                   *)
Leave(to) == page' = to /\ choosing' = FALSE

Change ==
  /\ page = "before" /\ changes < MaxChanges
  /\ \E r \in Requests : /\ r # request /\ (r.archive = PyPI) = IsPython
                        /\ request' = r
  /\ changes' = changes + 1
  /\ UNCHANGED <<indexVars, page, fieldVars, load, messages, ticking, summaryVars,
                 preview, keys, warned>>

-----------------------------------------------------------------------------
(* Keys.  Whatever one did, the row the cursor is on is the one to rest    *)
(* on.                                                                     *)

Press ==
  /\ page = "picker" /\ keys < MaxKeys /\ keys' = keys + 1
  /\ UNCHANGED <<indexVars, request, load, messages, ticking, preview, changes>>
Stays == page' = page /\ Rest(TRUE, Index)
(* The two lists take the keys in turn.                                    *)
InList == Press /\ ~choosing /\ UNCHANGED sectionCursor

Type ==
  /\ InList
  /\ \E text \in Typed \ {query} : query' = text
  /\ nudged' = FALSE
  /\ UNCHANGED <<chosen, section, choosing, warned>>
  /\ Refresh /\ Stays

Clear ==
  /\ InList
  /\ section' = IF query = "" THEN None ELSE section
  /\ query' = ""
  /\ UNCHANGED <<chosen, choosing, nudged, warned>>
  /\ Refresh /\ Stays

(* addSeveral: what is typed and the list typed or pasted after it.        *)
Paste ==
  /\ InList
  /\ \E list \in Lists :
       LET added(names, n) ==
             IF n \in Names \ (Range(names) \cup CatalogChosen) THEN Append(names, n) ELSE names
       IN  chosen' = FoldLeft(added, chosen,
                              (IF query = "" THEN <<>> ELSE <<query>>) \o list)
  /\ query' = ""
  /\ UNCHANGED <<section, choosing, nudged, warned>>
  /\ Refresh /\ Stays

Move ==
  /\ InList
  /\ \E delta \in {-1, 1} :
       cursor + delta \in DOMAIN rows /\ cursor' = cursor + delta
  /\ UNCHANGED <<chosen, query, section, rows, choosing, nudged, warned>>
  /\ Stays

(* Space adds or removes the row.  A name typed whole is done with; with   *)
(* no query the list may be the answer and is rebuilt, the cursor kept.    *)
NotClamped(rs, c) == c
Clamped(rs, c) == IF rs = <<>> THEN 1 ELSE IF c > Len(rs) THEN Len(rs) ELSE c
Toggle ==
  /\ InList /\ cursor \in DOMAIN rows
  /\ LET name == rows[cursor].name
     IN  /\ name \notin CatalogChosen
         /\ chosen' = IF name \in Range(chosen) THEN Remove(chosen, name)
                      ELSE Append(chosen, name)
         /\ query' = IF query \in Names /\ Folded[query] = Folded[name] THEN "" ELSE query
  /\ UNCHANGED <<section, choosing, nudged, warned>>
  /\ IF query' # query THEN Refresh
     ELSE IF query = ""
     THEN rows' = Rows(IsPython, chosen', query, section, Index) /\ cursor' = Clamped(rows', cursor)
     ELSE UNCHANGED <<rows, cursor>>
  /\ Stays

(* Enter leaves, unless it would drop a name that was typed and not added, *)
(* or two spellings of one project are chosen.                             *)
UnaddedUnknown == query # "" /\ rows # <<>> /\ rows[1].asTyped
Unadded == query # "" /\ query \notin Range(chosen) \cup CatalogChosen
Valid ==
  IsPython =>
    \A m, n \in Range(chosen) : Spelling[m] = Spelling[n] => m = n

Enter ==
  /\ InList
  /\ UNCHANGED <<chosen, query, section, rows, cursor>>
  /\ IF Unadded /\ ~nudged
     THEN nudged' = TRUE /\ warned' = query /\ UNCHANGED choosing /\ Stays
     ELSE /\ UNCHANGED <<nudged, warned>>
          /\ IF Valid THEN Leave("after") /\ UNCHANGED summaryVars
             ELSE UNCHANGED choosing /\ Stays

Back ==
  /\ InList /\ Leave("before")
  /\ UNCHANGED <<chosen, query, section, rows, cursor, nudged, warned, summaryVars>>

-----------------------------------------------------------------------------
(* The section list: all sections, then those that hold a match.  PyPI has *)
(* none.                                                                   *)

Sections(q) ==
  IF Index = None \/ IsPython THEN {}
  ELSE {SectionOf[n] : n \in Range(Search(IsPython, Index, q, None))} \ {None}
SectionList == <<None>> \o SetToSeq(Sections(query))

OpenSections ==
  /\ Press /\ ~choosing /\ Sections(query) # {}
  /\ choosing' = TRUE
  /\ sectionCursor' = IF section \in Range(SectionList)
                      THEN CHOOSE n \in DOMAIN SectionList : SectionList[n] = section ELSE 1
  /\ UNCHANGED <<chosen, query, section, rows, cursor, nudged, warned>>
  /\ Stays

InSections == Press /\ choosing /\ UNCHANGED <<chosen, query, nudged, warned>>

MoveSection ==
  /\ InSections
  /\ \E delta \in {-1, 1} :
       /\ sectionCursor + delta \in DOMAIN SectionList
       /\ sectionCursor' = sectionCursor + delta
  /\ UNCHANGED <<section, rows, cursor, choosing>>
  /\ Stays

PickSection ==
  /\ InSections /\ sectionCursor \in DOMAIN SectionList
  /\ section' = SectionList[sectionCursor]
  /\ choosing' = FALSE /\ UNCHANGED sectionCursor
  /\ Refresh /\ Stays

CloseSections ==
  /\ InSections
  /\ choosing' = FALSE /\ UNCHANGED <<section, sectionCursor, rows, cursor>>
  /\ Stays

-----------------------------------------------------------------------------
(* Messages.                                                               *)

Unmoved == UNCHANGED <<request, load, keys, changes, warned>>

(* An opening goes on, and says so when it has ended, to whichever page is *)
(* on by then.                                                             *)
IndexStep(l) ==
  /\ CallStep(l)
  /\ messages' = IF calls'[l].at = "ended" THEN messages + 1 ELSE messages
  /\ UNCHANGED <<page, fieldVars, ticking, summaryVars, preview>> /\ Unmoved

Redraws ==
  /\ UNCHANGED <<chosen, query, section, choosing, sectionCursor, nudged>>
  /\ Refresh

Loaded ==
  /\ messages > 0 /\ messages' = messages - 1
  /\ \/ /\ page = "picker"
        /\ Redraws /\ Rest(TRUE, Index)
        /\ UNCHANGED <<opened, preview>>
     \/ /\ page = "summary"
        /\ preview' = KnownFor(request) /\ Known(request)
        /\ UNCHANGED <<fieldVars, summaryVars>>
     \/ /\ page \notin {"picker", "summary"}
        /\ UNCHANGED <<opened, preview, fieldVars, summaryVars>>
  /\ UNCHANGED <<refresh, cache, kept, calls, page, ticking>> /\ Unmoved

Tick ==
  /\ ticking
  /\ ticking' = (page = "picker" /\ Loading)
  /\ IF page = "picker" /\ ~Loading THEN Redraws ELSE UNCHANGED fieldVars
  /\ UNCHANGED <<indexVars, page, messages, summaryVars, preview>> /\ Unmoved

(* A rest is asked about unless the cursor has moved on; its number is     *)
(* spent then, so that the second copy is a rest superseded.               *)
RestDue ==
  /\ rest # None /\ rest.copies > 0
  /\ IF page = "picker" /\ Highlighted(choosing, rows, cursor) = rest.name
     THEN rest' = None /\ lookups' = lookups \cup {rest.name}
     ELSE rest' = [rest EXCEPT !.copies = @ - 1] /\ UNCHANGED lookups
  /\ UNCHANGED <<indexVars, page, fieldVars, messages, ticking, known, preview>>
  /\ Unmoved

(* A lookup ends; what it failed to find is known to be nothing.           *)
LookedUp ==
  \E name \in lookups :
    /\ lookups' = lookups \ {name} /\ known' = known \cup {name}
    /\ UNCHANGED <<indexVars, page, fieldVars, messages, ticking, rest, preview>>
    /\ Unmoved

(* The pages are completed, and the summary's question answered.  What is  *)
(* still being fetched is not fetched further.                             *)
Finish ==
  /\ page = "after" /\ page' = "summary"
  /\ preview' = KnownFor(request) /\ Known(request)
  /\ UNCHANGED <<refresh, cache, kept, calls, fieldVars, messages, ticking,
                 summaryVars>>
  /\ Unmoved

AnswerQuestion ==
  /\ page = "summary" /\ page' = "done"
  /\ calls' = [l \in Loads |-> CancelCall(calls[l])]
  /\ UNCHANGED <<refresh, cache, opened, kept, fieldVars, messages, ticking,
                 summaryVars, preview>>
  /\ Unmoved

-----------------------------------------------------------------------------
(* The specification.                                                      *)

PickerInit ==
  /\ page = "before" /\ request \in Requests
  /\ chosen \in Starts
  /\ query = "" /\ section = None /\ cursor = 1
  /\ rows = Rows(IsPython, chosen, "", None, None)
  /\ choosing = FALSE /\ sectionCursor = 1 /\ nudged = FALSE
  /\ load = None /\ messages = 0 /\ ticking = FALSE
  /\ rest = None /\ lookups = {} /\ known = {}
  /\ preview = None /\ keys = 0 /\ changes = 0
  /\ warned = None

KeyPressed ==
  \/ Type \/ Clear \/ Paste \/ Move \/ Toggle \/ Enter \/ Back
  \/ OpenSections \/ MoveSection \/ PickSection \/ CloseSections

PickerNext ==
  \/ Focus \/ Change \/ KeyPressed \/ Loaded \/ Tick \/ RestDue \/ LookedUp
  \/ Finish \/ AnswerQuestion
  \/ \E l \in Loads : IndexStep(l)
PickerSpec == IndexesInit /\ PickerInit /\ [][PickerNext]_vars

-----------------------------------------------------------------------------
(* Properties.                                                             *)

PickerTypeOK ==
  /\ IndexesTypeOK
  /\ page \in {"before", "picker", "after", "summary", "done"}
  /\ request \in Requests /\ chosen \in Seq(Names)
  /\ query \in Texts /\ rows \in Seq(Row) /\ cursor \in 1..Max({1, Len(rows)})
  /\ choosing \in BOOLEAN /\ nudged \in BOOLEAN /\ sectionCursor \in Nat
  /\ load \in Loads \cup {None} /\ messages \in Nat /\ ticking \in BOOLEAN
  /\ lookups \subseteq Names /\ known \subseteq Names
  /\ preview \in Answer \cup {None}

(* While the picker is on screen its load is for the answers as they are,  *)
(* and once the load's end has been told the list is that index's: a load  *)
(* superseded, or one that ended while another page was on, leaves nothing *)
(* of another release or source behind.                                    *)
ShownIsCurrent ==
  page = "picker" =>
    /\ calls[load].request = request
    /\ ~Loading /\ messages = 0 /\ ~ticking =>
         rows = Rows(IsPython, chosen, query, section, Index)

(* Enter never leaves the page with a name typed and not added that it has *)
(* not warned of, in this visit and for this very text.                    *)
NothingTypedIsDropped ==
  [][/\ page = "picker" /\ page' = "after"
     /\ query # "" /\ query \notin Range(chosen) \cup CatalogChosen
     => warned = query]_vars

(* What the picker is answered online accounts for every repository asked  *)
(* for, as read or as missing, and with --refresh-index what it does not   *)
(* call missing was fetched by this run.                                   *)
OpenIsTrue ==
  \A l \in Loads :
    calls[l].at = "ended" /\ calls[l].answer # None =>
      \A r \in ReposOf(calls[l].request) \ {PyPI} :
        \/ r \in calls[l].answer.missing
        \/ calls[l].answer.searched[r] \in IF refresh THEN {"run"} ELSE {"fresh", "run"}

(* The summary's warning is computed from the index the form opened once   *)
(* that has arrived: "the index arriving is a reason to say it now".       *)
WarningCatchesUp ==
  page = "summary" /\ messages = 0 /\ ~Loading /\ Index # None /\ IsWhole(Index)
    => preview = Index
=============================================================================
