------------------------------ MODULE LogsPage ------------------------------
(***************************************************************************)
(* The access log page of the console (logs-page.tsx) with the search of   *)
(* the control plane and ClickHouse (searchLogs, Search).  The filters are *)
(* typed into a draft; submitting it applies a search whose time range is  *)
(* fixed then, and the pages of the search are read by their offset and    *)
(* cached by their URL while new requests keep being logged.               *)
(*                                                                         *)
(* The eight filters are a site or no site, and a range.  An entry is its  *)
(* time and site.                                                          *)
(***************************************************************************)
EXTENDS Naturals, FiniteSetsExt

CONSTANTS
    LogSites,      \* sites, as numbers from 1
    Ranges,        \* the lengths of the range, in the order of the select
    LogPageSize,   \* logSearchPageSize, 20 in the code
    MaxTime        \* bound: the time

ASSUME LogsAssumption ==
    /\ LogSites \subseteq Nat \ {0}
    /\ Ranges \subseteq Nat \ {0} /\ Ranges # {}
    /\ LogPageSize \in Nat \ {0}
    /\ MaxTime \in Nat

VARIABLES
    time,       \* the time
    log,        \* table cdn_access_logs
    filters,    \* the draft
    search,     \* the applied search
    offset,     \* the offset of the page shown
    pages,      \* the cached pages of the applied search, by offset
    loading,    \* the read of the page shown
    late        \* history: an entry of the search's range came after it

logVars == <<time, log, filters, search, offset, pages, loading, late>>
-----------------------------------------------------------------------------
Entry == [time : 1 .. MaxTime, site : LogSites]
defaults == [range |-> Min(Ranges), site |-> 0]   \* 0 is all sites
NoPage == [logs |-> {}, has_more |-> FALSE]
NotLoading == [phase |-> "idle", page |-> NoPage]
Loading == [NotLoading EXCEPT !.phase = "sent"]

\* appliedSearch: the range ends when the search is applied.
appliedSearch(f) ==
    [site |-> f.site, to |-> time,
     from |-> IF time > f.range THEN time - f.range ELSE 0]

\* Mutant: entries of the very moment of the search are in its range.
InRangeClosed(s, e) == s.from <= e.time /\ e.time <= s.to

\* The conditions of the query.
InRange(s, e) == s.from <= e.time /\ e.time < s.to

Matches(s) == {e \in log : InRange(s, e) /\ s.site \in {0, e.site}}

\* The order of the query: newest first, then by the other columns.
Before(a, b) == a.time > b.time \/ (a.time = b.time /\ a.site < b.site)

\* The place of an entry in the result, from 1.
Position(s, e) == Cardinality({x \in Matches(s) : Before(x, e)}) + 1

\* LIMIT and OFFSET; one more than a page is read.
Search(s, o) ==
    [logs |-> {e \in Matches(s) : Position(s, e) \in o + 1 .. o + LogPageSize},
     has_more |-> Cardinality(Matches(s)) > o + LogPageSize]
-----------------------------------------------------------------------------
LogsInit ==
    /\ time = 1
    /\ log = {}
    /\ filters = defaults
    /\ search = appliedSearch(defaults)
    /\ offset = 0
    /\ pages = <<>>
    /\ loading = Loading
    /\ late = FALSE

\* An edge uploads an entry: at once, or late, out of its queue.
Upload(e) ==
    /\ e.time <= time /\ e \notin log
    /\ log' = log \cup {e}
    /\ late' = (late \/ (e.time < time /\ e.time < search.to))
    /\ UNCHANGED <<time, filters, search, offset, pages, loading>>

Tick ==
    /\ time < MaxTime
    /\ time' = time + 1
    /\ UNCHANGED <<log, filters, search, offset, pages, loading, late>>

\* The inputs of the form.
setDraft(f) ==
    /\ f # filters
    /\ filters' = f
    /\ UNCHANGED <<time, log, search, offset, pages, loading, late>>

\* A search with the URL of the last one finds its pages in the cache.
apply(s) ==
    /\ search' = s
    /\ offset' = 0
    /\ pages' = IF s = search THEN pages ELSE <<>>
    /\ loading' \in IF 0 \in DOMAIN pages' THEN {NotLoading, Loading} ELSE {Loading}
    /\ late' = (late /\ s = search)
    /\ UNCHANGED <<time, log>>

submit == apply(appliedSearch(filters)) /\ UNCHANGED filters

reset == filters' = defaults /\ apply(appliedSearch(defaults))

\* searchLogs.
ServeSearch ==
    /\ loading.phase = "sent"
    /\ loading' = [phase |-> "answered", page |-> Search(search, offset)]
    /\ UNCHANGED <<time, log, filters, search, offset, pages, late>>

ReceiveLogs ==
    /\ loading.phase = "answered"
    /\ pages' = [o \in DOMAIN pages \cup {offset} |-> IF o = offset THEN loading.page ELSE pages[o]]
    /\ loading' = NotLoading
    /\ UNCHANGED <<time, log, filters, search, offset, late>>

LogsFail ==
    /\ loading.phase # "idle"
    /\ loading' = NotLoading
    /\ UNCHANGED <<time, log, filters, search, offset, pages, late>>

\* setOffset: the page of that offset is read unless it is cached and fresh.
setOffset(o) ==
    /\ offset \in DOMAIN pages        \* the buttons are shown with the page
    /\ loading.phase = "idle"
    /\ offset' = o
    /\ loading' \in IF o \in DOMAIN pages THEN {NotLoading, Loading} ELSE {Loading}
    /\ UNCHANGED <<time, log, filters, search, pages, late>>

previousPage ==
    /\ offset # 0
    /\ setOffset(IF offset > LogPageSize THEN offset - LogPageSize ELSE 0)

nextPage ==
    /\ offset \in DOMAIN pages /\ pages[offset].has_more
    /\ setOffset(offset + LogPageSize)

LogsNext ==
    \/ Tick
    \/ \E e \in Entry : Upload(e)
    \/ \E f \in [range : Ranges, site : LogSites \cup {0}] : setDraft(f)
    \/ submit \/ reset
    \/ ServeSearch \/ ReceiveLogs \/ LogsFail
    \/ previousPage \/ nextPage

LogsSpec == LogsInit /\ [][LogsNext]_logVars
-----------------------------------------------------------------------------
LogsTypeOK ==
    /\ time \in 1 .. MaxTime
    /\ log \subseteq Entry
    /\ offset \in Nat
    /\ loading.phase \in {"idle", "sent", "answered"}

(***************************************************************************)
(* Turning the pages of a search never repeats an entry on another page,   *)
(* and skips none, however many requests are logged meanwhile: a page that *)
(* is not the last one is full, and the pages up to the last one hold all  *)
(* that the search finds.  The range of a search ends before the first     *)
(* entry that may still come, apart from those that an edge uploads late.  *)
(***************************************************************************)
PagesDoNotShift ==
    ~late =>
        \A o \in DOMAIN pages :
            /\ \A p \in DOMAIN pages : o # p => pages[o].logs \cap pages[p].logs = {}
            /\ IF pages[o].has_more
               THEN Cardinality(pages[o].logs) = LogPageSize
               ELSE {p \in 0 .. o : p % LogPageSize = 0} \subseteq DOMAIN pages =>
                        Matches(search) = UNION {pages[p].logs : p \in DOMAIN pages}
=============================================================================
