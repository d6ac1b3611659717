------------------------------ MODULE Shortener ------------------------------
(***************************************************************************)
(* The URL shortener: requests that look a URL up by its normal form and,  *)
(* when nobody has asked for it yet, insert it under a code of their own;  *)
(* a table whose codes are unique; a generator of ids that starts from the *)
(* clock.                                                                  *)
(*                                                                         *)
(* A URL is known by its parts.  One that was written without a scheme has *)
(* its host in the path, as url.Parse takes it.  A code stands for the id  *)
(* it encodes.                                                             *)
(***************************************************************************)
EXTENDS Integers, FiniteSets, Sequences, SequencesExt, Sorting

CONSTANTS
  Urls,         \* URLs that are asked for, see Url
  Numbers,      \* ids: what the generator may come to in one run
  Requests,     \* requests at a time
  MaxRestarts,  \* bound: restarts of the server
  MaxFailures   \* bound: statements that fail

\* scheme and host are names with a flag for capital letters, port is 0 where
\* none is given, and path stands for all of the path.  literal: the host is an
\* IPv6 literal, which has colons of its own.
Url == [scheme: {"", "http", "https"}, shouted: BOOLEAN, host: {"h", "H", "g"}, literal: BOOLEAN,
        port: {0, 80, 443}, path: {"", "/", "p"}, query: Seq(Nat \X Nat), fragment: BOOLEAN]

ASSUME ShortenerAssumption ==
  /\ Urls \subseteq Url
  /\ IsFiniteSet(Numbers) /\ Numbers \subseteq Nat
  /\ MaxRestarts \in Nat /\ MaxFailures \in Nat

VARIABLES
  urls,      \* the table: [original_url, short_code]
  request,   \* request -> [pc, url]
  next,      \* the generator gives ids from here on
  restarts, failures,
  handed,    \* history: [url, code] answered to requests for short URLs
  raced      \* history: normal forms that requests missed at the same time, or
             \* that were there although the lookup failed

shortenerVars == <<urls, request, next, restarts, failures, handed, raced>>

-----------------------------------------------------------------------------
(* normalizeURL *)

Lower(name) == IF name = "H" THEN "h" ELSE name

DefaultPort(scheme) == IF scheme = "http" THEN 80 ELSE IF scheme = "https" THEN 443 ELSE 0

Before(a, b) == a[1] < b[1] \/ (a[1] = b[1] /\ a[2] < b[2])

\* Mutation: the values of one key keep their order.
SortedByKey(query) == Sorted(query, LAMBDA a, b : a[1] < b[1])

\* By key, and by value where a key is repeated.
SortedQuery(query) == Sorted(query, Before)

\* A URL without a scheme gets one; the host that is in its path keeps its case,
\* its port and a slash behind it.
Schemeless(u) == u.scheme = ""

\* The host is cut at the first colon to lose the default port: of a literal,
\* that leaves the bracket.
CutHost(u) == IF u.literal THEN "[" ELSE Lower(u.host)

HasDefaultPort(u) == u.port # 0 /\ u.port = DefaultPort(u.scheme)

NormalForm(u) ==
  IF Schemeless(u)
  THEN [u EXCEPT !.scheme = "http", !.query = SortedQuery(@), !.fragment = FALSE]
  ELSE [scheme |-> u.scheme, shouted |-> FALSE,
        host |-> IF HasDefaultPort(u) THEN CutHost(u) ELSE Lower(u.host),
        literal |-> u.literal /\ ~HasDefaultPort(u),
        port |-> IF HasDefaultPort(u) THEN 0 ELSE u.port,
        path |-> IF u.path = "/" THEN "" ELSE u.path,
        query |-> SortedQuery(u.query), fragment |-> FALSE]

-----------------------------------------------------------------------------
Idle == [pc |-> "idle"]

Row(original, code) == [original_url |-> original, short_code |-> code]

ShortenerTypeOK ==
  /\ \A row \in urls : row.short_code \in Numbers
  /\ DOMAIN request = Requests
  /\ \A r \in Requests : request[r].pc \in {"idle", "missed"}
  /\ next \in Nat
  /\ restarts \in 0..MaxRestarts /\ failures \in 0..MaxFailures

ShortenerInit ==
  /\ urls = {} /\ request = [r \in Requests |-> Idle]
  /\ next \in Numbers
  /\ restarts = 0 /\ failures = 0
  /\ handed = {} /\ raced = {}

-----------------------------------------------------------------------------
(* shortenURL *)

CodesOf(original) == {row.short_code : row \in {w \in urls : w.original_url = original}}

Missing(original) == \E r \in Requests : request[r].pc = "missed" /\ NormalForm(request[r].url) = original

\* The code of some row with the normal form is the answer.
LookUpFinds(r, u) ==
  /\ request[r].pc = "idle"
  /\ \E code \in CodesOf(NormalForm(u)) : handed' = handed \cup {[url |-> u, code |-> code]}
  /\ UNCHANGED <<urls, request, next, restarts, failures, raced>>

LookUpMisses(r, u) ==
  /\ request[r].pc = "idle" /\ CodesOf(NormalForm(u)) = {}
  /\ request' = [request EXCEPT ![r] = [pc |-> "missed", url |-> u]]
  /\ raced' = IF Missing(NormalForm(u)) THEN raced \cup {NormalForm(u)} ELSE raced
  /\ UNCHANGED <<urls, next, restarts, failures, handed>>

\* Any error of the lookup is taken for a miss.
LookUpFails(r, u) ==
  /\ request[r].pc = "idle" /\ failures < MaxFailures
  /\ request' = [request EXCEPT ![r] = [pc |-> "missed", url |-> u]]
  /\ raced' = raced \cup {NormalForm(u)}
  /\ failures' = failures + 1
  /\ UNCHANGED <<urls, next, restarts, handed>>

\* Within a run the generator gives no id twice.
Generate == next \in Numbers /\ next' = next + 1

\* Mutation: a code that is taken changes hands.
InsertOrReplace(r) ==
  /\ request[r].pc = "missed" /\ Generate
  /\ urls' = {row \in urls : row.short_code # next} \cup {Row(NormalForm(request[r].url), next)}
  /\ handed' = handed \cup {[url |-> request[r].url, code |-> next]}
  /\ request' = [request EXCEPT ![r] = Idle]
  /\ UNCHANGED <<restarts, failures, raced>>

\* An id is generated and the row inserted under it, with no other look at the
\* URL.
Insert(r) ==
  /\ request[r].pc = "missed" /\ Generate
  /\ \A row \in urls : row.short_code # next
  /\ urls' = urls \cup {Row(NormalForm(request[r].url), next)}
  /\ handed' = handed \cup {[url |-> request[r].url, code |-> next]}
  /\ request' = [request EXCEPT ![r] = Idle]
  /\ UNCHANGED <<restarts, failures, raced>>

\* The code is taken: the column is unique, and the answer is a 500.
InsertRefused(r) ==
  /\ request[r].pc = "missed" /\ Generate
  /\ \E row \in urls : row.short_code = next
  /\ request' = [request EXCEPT ![r] = Idle]
  /\ UNCHANGED <<urls, restarts, failures, handed, raced>>

\* The statement fails, its row inserted or not; the answer is a 500.
InsertFails(r) ==
  /\ request[r].pc = "missed" /\ Generate /\ failures < MaxFailures
  /\ urls' \in {urls} \cup {urls \cup {Row(NormalForm(request[r].url), next)} :
                              free \in {c \in {next} : \A row \in urls : row.short_code # c}}
  /\ failures' = failures + 1
  /\ request' = [request EXCEPT ![r] = Idle]
  /\ UNCHANGED <<restarts, handed, raced>>

\* The process ends, its requests with it, and is started again.  The new
\* generator starts from the clock, which may have been set back.
Restart ==
  /\ restarts < MaxRestarts
  /\ restarts' = restarts + 1
  /\ request' = [r \in Requests |-> Idle]
  /\ next' \in Numbers
  /\ UNCHANGED <<urls, failures, handed, raced>>

ShortenerNext ==
  \/ \E r \in Requests : \/ \E u \in Urls : LookUpFinds(r, u) \/ LookUpMisses(r, u) \/ LookUpFails(r, u)
                         \/ Insert(r) \/ InsertRefused(r) \/ InsertFails(r)
  \/ Restart

ShortenerSpec == ShortenerInit /\ [][ShortenerNext]_shortenerVars

-----------------------------------------------------------------------------
(* Properties *)

\* Where redictToOriginal sends a code.
Targets(code) == {row.original_url : row \in {w \in urls : w.short_code = code}}

\* A code that was handed out leads to the URL it was handed out for, in its
\* normal form, and to no other, for ever: whatever requests were under way, and
\* although a generator may repeat ids after a restart.
CodesLeadHome == \A h \in handed : Targets(h.code) = {NormalForm(h.url)}

\* What a URL means, of those the normal form is right for.
Plain(u) == ~Schemeless(u) /\ ~u.literal

Meaning(u) ==
  [scheme |-> u.scheme, host |-> Lower(u.host),
   port |-> IF u.port = 0 THEN DefaultPort(u.scheme) ELSE u.port,
   path |-> IF u.path = "" THEN "/" ELSE u.path,
   query |-> [pair \in ToSet(u.query) |-> Cardinality({i \in DOMAIN u.query : u.query[i] = pair})]]

\* Two spellings of one URL get one code, and two URLs never do, unless requests
\* for that URL missed it together or the lookup of one failed.
OneCodeForEachUrl ==
  \A g, h \in {x \in handed : Plain(x.url)} :
    /\ g.code = h.code => Meaning(g.url) = Meaning(h.url)
    /\ (Meaning(g.url) = Meaning(h.url) /\ NormalForm(g.url) \notin raced) => g.code = h.code
=============================================================================
