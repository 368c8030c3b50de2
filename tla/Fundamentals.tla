---------------------------- MODULE Fundamentals ----------------------------
(***************************************************************************)
(* The float, short interest and short volume of the desktop's symbol      *)
(* (clients/massive_fundamentals_client.py and the fundamentals of         *)
(* ui/controller.py): a background task per entered symbol asks a service  *)
(* for the three in turn, through a cache that is written to one file and  *)
(* read again by the client of a new key and after a restart.              *)
(*                                                                         *)
(* A figure is the issue it belongs to and the time it was fetched.  The   *)
(* clock moves in steps that outlast a short volume's lifetime.  What a    *)
(* request of one path brings is fixed for an issue the path knows, but    *)
(* any request may fail.  Labels are changed in the order they are posted. *)
(***************************************************************************)
EXTENDS Integers, FiniteSets

CONSTANTS
    Issues,         \* symbols
    NoIssue,
    MaxLookups,     \* bound of the tasks
    MaxClients,     \* bound of the clients, one per key or start of the process
    MaxClock        \* bound of the time
ASSUME FundamentalsAssumption ==
    /\ NoIssue \notin Issues /\ {MaxLookups, MaxClients, MaxClock} \subseteq Nat \ {0}

VARIABLES
    asked,          \* _active_symbol
    client,         \* the number of _massive_client, 0 without a key
    cache,          \* per client: its _cache
    disk,           \* massive_cache.json
    lookup,         \* per task: what it does
    lookups,        \* number of tasks so far
    panel,          \* the labels: the figure shown, or none but a status
    figures,        \* _massive_values: the issues they are of
    clock,
    known,          \* the paths that know an issue's float
    failed,         \* history: issues whose float a path knew and failed to tell
    crossed         \* history: whether a task of an earlier symbol was still running

fundVars == <<asked, client, cache, disk, lookup, lookups, panel, figures, clock,
              known, failed, crossed>>

Kinds == <<"float", "interest", "volume">>
Ttl == [float |-> 1, interest |-> 2, volume |-> 0]
Paths == [float |-> 2, interest |-> 1, volume |-> 2]    \* attempts of a fetch
KindSet == {"float", "interest", "volume"}
Absent == [status |-> "none", at |-> 0]
Failure == [status |-> "FAILURE", at |-> 0]
Empty == [k \in KindSet |-> [s \in Issues |-> Absent]]
NoFigure == [of |-> NoIssue, age |-> 0]
BlankPanel == [k \in KindSet |-> NoFigure]
NoLookup == [pc |-> "off", of |-> NoIssue, client |-> 0, kind |-> 1, try |-> 1,
             got |-> Absent]
Current(t) == Kinds[lookup[t].kind]

FundInit ==
    /\ asked = NoIssue /\ client = 1 /\ cache = [c \in 1 .. MaxClients |-> Empty]
    /\ disk = [torn |-> FALSE, kept |-> Empty]
    /\ lookup = [t \in 1 .. MaxLookups |-> NoLookup] /\ lookups = 0
    /\ panel = BlankPanel /\ figures = [k \in KindSet |-> NoIssue]
    /\ clock = 0 /\ known \in [Issues -> SUBSET {1, 2}]
    /\ failed = {} /\ crossed = FALSE

Lookup(t, changed) == lookup' = [lookup EXCEPT ![t] = changed]
Running == {t \in 1 .. MaxLookups : lookup[t].pc # "off"}

-----------------------------------------------------------------------------
(* The controller.                                                         *)

\* _set_massive_field: the value is kept only if there is one.
KeepsFirstFigure(k, s) == IF figures[k] = NoIssue THEN s ELSE figures[k]
Figure(k, s) == s
SetField(k, status, s, age) ==
    IF status = "OK"
    THEN panel' = [panel EXCEPT ![k] = [of |-> s, age |-> age]]
         /\ figures' = [figures EXCEPT ![k] = Figure(k, s)]
    ELSE panel' = [panel EXCEPT ![k] = NoFigure] /\ UNCHANGED figures

\* _fetch_massive_fundamentals; a task whose client is gone when it starts fails.
AskFor(s) ==
    /\ lookups < MaxLookups /\ asked' = s /\ lookups' = lookups + 1
    /\ crossed' = (crossed \/ Running # {})
    /\ panel' = BlankPanel
    /\ lookup' = IF client = 0 THEN lookup
                 ELSE [lookup EXCEPT ![lookups + 1] = [NoLookup EXCEPT !.pc = "start", !.of = s]]
    /\ UNCHANGED <<client, cache, disk, figures, clock, known, failed>>

Start(t) ==
    /\ lookup[t].pc = "start"
    /\ Lookup(t, [lookup[t] EXCEPT !.pc = IF client = 0 THEN "show" ELSE "ask", !.client = client,
                                   !.got = Failure])
    /\ UNCHANGED <<asked, client, cache, disk, lookups, panel, figures, clock, known, failed, crossed>>

\* _set_massive_api_key: a new client reads the file, an empty key drops the client.
OnFile == IF disk.torn THEN Empty ELSE disk.kept
Clients == {lookup[t].client : t \in Running} \cup {client}
SetKey ==
    /\ \/ client # 0 /\ client' = 0 /\ UNCHANGED cache
       \/ \E c \in 1 .. MaxClients \ Clients :
            client' = c /\ cache' = [cache EXCEPT ![c] = OnFile]
    /\ UNCHANGED <<asked, disk, lookup, lookups, panel, figures, clock, known, failed, crossed>>

-----------------------------------------------------------------------------
(* A fetch: float, then short interest, then short volume.                 *)

\* _cache_get.
Unlimited(k, entry) == entry # Absent
Fresh(k, entry) == entry # Absent /\ clock - entry.at <= Ttl[k]
Cached(t) ==
    /\ lookup[t].pc = "ask" /\ lookup[t].try = 1
    /\ LET entry == cache[lookup[t].client][Current(t)][lookup[t].of] IN
       /\ Fresh(Current(t), entry)
       /\ Lookup(t, [lookup[t] EXCEPT !.pc = "show", !.got = entry])
    /\ UNCHANGED <<asked, client, cache, disk, lookups, panel, figures, clock, known, failed, crossed>>

\* An answer: the float's paths each know the issue or say 404; the others have it.
Knows(k, s, path) == k # "float" \/ path \in known[s]
Uncached(t) ==
    lookup[t].pc = "ask" /\ (lookup[t].try = 1 =>
        ~Fresh(Current(t), cache[lookup[t].client][Current(t)][lookup[t].of]))
OneTry(t) == TRUE
SecondTry(t) == lookup[t].try = 2
LastTry(t) == lookup[t].try = Paths[Current(t)]
Found(t) ==
    /\ Uncached(t) /\ Knows(Current(t), lookup[t].of, lookup[t].try)
    /\ Lookup(t, [lookup[t] EXCEPT !.pc = "store", !.got = [status |-> "OK", at |-> clock]])
    /\ UNCHANGED <<asked, client, cache, disk, lookups, panel, figures, clock, known, failed, crossed>>

\* 404: the next path, and at the last one the cached answer that there is none.
NotFound(t) ==
    /\ Uncached(t) /\ ~Knows(Current(t), lookup[t].of, lookup[t].try)
    /\ Lookup(t, IF LastTry(t)
                 THEN [lookup[t] EXCEPT !.pc = "store", !.got = [status |-> "NOT_AVAILABLE", at |-> clock]]
                 ELSE [lookup[t] EXCEPT !.try = @ + 1])
    /\ UNCHANGED <<asked, client, cache, disk, lookups, panel, figures, clock, known, failed, crossed>>

\* A refusal, no connection, or an answer that is not understood.  Only short volume stops at a
\* refusal before its last attempt.
Failing(t) ==
    /\ Uncached(t)
    /\ failed' = IF Current(t) = "float" /\ Knows("float", lookup[t].of, lookup[t].try)
                 THEN failed \cup {lookup[t].of} ELSE failed
    /\ \E refused \in BOOLEAN :
        Lookup(t, IF LastTry(t) \/ (Current(t) = "volume" /\ refused)
                  THEN [lookup[t] EXCEPT !.pc = "show", !.got = Failure]
                  ELSE [lookup[t] EXCEPT !.try = @ + 1])
    /\ UNCHANGED <<asked, client, cache, disk, lookups, panel, figures, clock, known, crossed>>

\* _cache_set: memory, then the file, opened (which empties it) and written.
Store(t) ==
    /\ lookup[t].pc = "store" /\ Lookup(t, [lookup[t] EXCEPT !.pc = "write"])
    /\ cache' = [cache EXCEPT ![lookup[t].client][Current(t)][lookup[t].of] = lookup[t].got]
    /\ disk' = [disk EXCEPT !.torn = TRUE]
    /\ UNCHANGED <<asked, client, lookups, panel, figures, clock, known, failed, crossed>>

\* The whole cache; two writers at once may leave a mixture.
Write(t) ==
    /\ lookup[t].pc = "write" /\ Lookup(t, [lookup[t] EXCEPT !.pc = "show"])
    /\ \/ disk' = [torn |-> FALSE, kept |-> cache[lookup[t].client]]
       \/ /\ \E u \in Running \ {t} : lookup[u].pc = "write"
          /\ UNCHANGED disk
    /\ UNCHANGED <<asked, client, cache, lookups, panel, figures, clock, known, failed, crossed>>

\* The label, and the next kind.  Which symbol is shown by now is not looked at.
ShowField(t) ==
    /\ lookup[t].pc = "show"
    /\ SetField(Current(t), lookup[t].got.status, lookup[t].of,
                clock - lookup[t].got.at)
    /\ Lookup(t, IF lookup[t].kind = 3 THEN NoLookup
                 ELSE [lookup[t] EXCEPT !.pc = IF lookup[t].client = 0 THEN "show" ELSE "ask",
                                        !.kind = @ + 1, !.try = 1, !.got = Failure])
    /\ UNCHANGED <<asked, client, cache, disk, lookups, clock, known, failed, crossed>>

-----------------------------------------------------------------------------
\* Lifetimes are hours and days: a task that has its answer shows it before one goes by.
Pass ==
    /\ \A t \in Running : lookup[t].pc \in {"start", "ask"}
    /\ clock < MaxClock /\ clock' = clock + 1
    /\ UNCHANGED <<asked, client, cache, disk, lookup, lookups, panel, figures, known, failed, crossed>>

\* The process stops at any point and starts again, with its stored key.
RestartDesk ==
    /\ lookups < MaxLookups /\ lookups > 0
    /\ asked' = NoIssue /\ client' = 1 /\ cache' = [cache EXCEPT ![1] = OnFile]
    /\ lookup' = [t \in 1 .. MaxLookups |-> NoLookup]
    /\ panel' = BlankPanel /\ figures' = [k \in KindSet |-> NoIssue]
    /\ crossed' = FALSE
    /\ UNCHANGED <<disk, lookups, clock, known, failed>>

LookupStep(t) ==
    \/ Start(t) \/ Cached(t) \/ Found(t) \/ NotFound(t) \/ Failing(t) \/ Store(t) \/ Write(t)
    \/ ShowField(t)
FundNext ==
    \/ \E s \in Issues : AskFor(s)
    \/ SetKey \/ Pass \/ RestartDesk
    \/ \E t \in 1 .. MaxLookups : LookupStep(t)

FundSpec == FundInit /\ [][FundNext]_fundVars

-----------------------------------------------------------------------------
(* Properties.                                                             *)

\* Types; only final answers are in a cache, the label shows nothing from the time to come, and only
\* the float can be unavailable.  (MassiveFundamentalsClient's fields.)
FundTypeOK ==
    /\ asked \in Issues \cup {NoIssue} /\ client \in 0 .. MaxClients /\ clock \in 0 .. MaxClock
    /\ \A c \in 1 .. MaxClients, k \in KindSet, s \in Issues :
         /\ cache[c][k][s].at <= clock
         /\ cache[c][k][s].status \in {"none", "OK"} \cup (IF k = "float" THEN {"NOT_AVAILABLE"} ELSE {})
    /\ \A t \in Running : lookup[t].try <= Paths[Current(t)]

\* No figure is older than its lifetime when it is put on its label, however many clients and
\* restarts it has gone through.
FiguresFresh ==
    \A k \in KindSet : panel[k] # NoFigure => panel[k].age <= Ttl[k]

\* Unless a task of an earlier symbol was still running when a symbol was entered, a figure on a label
\* and the figure the model is given with it are of the symbol entered last.  (A label that
\* shows no figure says nothing of what the model is given: an earlier symbol's.)
FiguresOwn ==
    ~crossed => \A k \in KindSet : panel[k] # NoFigure => panel[k].of = asked /\ figures[k] = asked

\* An issue that a path knows the float of is never remembered as one without, unless that path failed (the next one's 404 is then believed).
UnavailableTrue ==
    \A c \in 1 .. MaxClients, s \in Issues \ failed :
        cache[c]["float"][s].status = "NOT_AVAILABLE" => known[s] = {}

\* A figure that is shown or kept is fresh, the symbol's own, and not denied without being asked for.
\* (MassiveFundamentalsClient, _fetch_massive_fundamentals.)
FiguresTrue == FundTypeOK /\ FiguresFresh /\ FiguresOwn /\ UnavailableTrue
=============================================================================
