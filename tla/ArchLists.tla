----------------------------- MODULE ArchLists -----------------------------
(***************************************************************************)
(* collect_arch.sh, which collects the package sets core and extra, and    *)
(* collect_arch_git.sh, which it calls when a list of clone URLs is        *)
(* missing: that script fetches the packages of both repositories page by  *)
(* page from a server that changes meanwhile, and replaces the two lists   *)
(* of each.  Several sessions may run on the same directory; a session may *)
(* be interrupted, when its EXIT trap still runs, or killed.               *)
(*                                                                         *)
(* The packages are numbered in the order the server lists them.           *)
(***************************************************************************)
EXTENDS Naturals, Sequences, FiniteSets

CONSTANTS
  Session,      \* the runs of collect_arch.sh
  Package,      \* the packages
  BaseOf,       \* BaseOf[x]: its pkgbase, the package its git repository is
                \* named after
  PageSize,     \* 250 in the code
  Servers,      \* what the server may list at first
  Selection,    \* Selection[s]: repositories, what session s is asked for
  MaxChanges    \* bound on the changes of the server and of the directory

Repo  == {"core", "extra"}
Order == <<"core", "extra">>       \* the two calls of fetch_repository

ASSUME PackageAssumption ==
  /\ Package \subseteq Nat /\ IsFiniteSet(Package)
  /\ BaseOf \in [Package -> Package]
  /\ PageSize \in Nat \ {0} /\ MaxChanges \in Nat
ASSUME InputAssumption ==
  /\ Servers \subseteq [Repo -> SUBSET Package]
  /\ Selection \in [Session -> Seq(Repo)]

VARIABLES
  server,     \* server[r]: the packages the API lists for r
  totals,     \* do its responses have num_pages?
  changes,    \* how often it, or the directory, has changed
  packages,   \* packages[r]: r/packages.txt
  urls,       \* urls[r]: r/clone_urls.txt
  pc,         \* pc[s]: where session s is
  k,          \* k[s]: which of Order it fetches, or of repositories it collects
  page,       \* page[s]: page
  temp,       \* temp[s]: "$packages_temp"
  tempDir,    \* the sessions whose TEMP_DIR exists
  failures,   \* failures[s]
  result,     \* result[s]: how it ended
  must,       \* history: the packages the server has listed since s began to
              \* fetch, before the place of any it has dropped
  owed,       \* history: the URLs of must when the list was made
  collected,  \* history: collected[s]: the repositories it has collected
  killed,     \* history: the sessions that were killed
  mixed       \* history: the repositories whose two lists may be of two fetches

local == <<pc, k, page, temp, failures, result, collected>>
files == <<packages, urls, tempDir>>
world == <<server, totals, changes>>
past  == <<must, owed, killed, mixed>>
vars  == <<local, files, world, past>>

NoFile   == [exists |-> FALSE, lines |-> {}]
File(L)  == [exists |-> TRUE, lines |-> L]
Urls(S)  == {BaseOf[x] : x \in S}
Current(s) == Order[k[s]]

Init ==
  /\ server \in Servers /\ totals \in BOOLEAN /\ changes = 0
  /\ packages = [r \in Repo |-> NoFile] /\ urls = [r \in Repo |-> NoFile]
  /\ pc = [s \in Session |-> "off"]
  /\ k = [s \in Session |-> 1] /\ page = [s \in Session |-> 1]
  /\ temp = [s \in Session |-> {}] /\ tempDir = {}
  /\ failures = [s \in Session |-> 0] /\ result = [s \in Session |-> "none"]
  /\ must = [s \in Session |-> {}] /\ owed = [r \in Repo |-> {}]
  /\ collected = [s \in Session |-> {}] /\ killed = {} /\ mixed = {}

Goto(s, place) == pc' = [pc EXCEPT ![s] = place]

\* The variables of collect_arch_git.sh are gone with it.
Forget(s) ==
  /\ page' = [page EXCEPT ![s] = 1] /\ temp' = [temp EXCEPT ![s] = {}]
  /\ k' = [k EXCEPT ![s] = 1] /\ must' = [must EXCEPT ![s] = {}]

-----------------------------------------------------------------------------
(* collect_arch.sh                                                          *)

\* The first loop looks for a missing list of the selected sets.
Check(s) ==
  /\ pc[s] = "off"
  /\ Goto(s, IF \E i \in 1..Len(Selection[s]) : ~urls[Selection[s][i]].exists
             THEN "generate" ELSE "collect")
  /\ UNCHANGED <<k, page, temp, failures, result, collected, files, world, past>>

\* "Package URL list does not exist"
CollectMissing(s) ==
  /\ pc[s] = "collect" /\ k[s] <= Len(Selection[s]) /\ ~urls[Selection[s][k[s]]].exists
  /\ failures' = [failures EXCEPT ![s] = @ + 1]
  /\ k' = [k EXCEPT ![s] = @ + 1]
  /\ UNCHANGED <<pc, page, temp, result, collected, files, world, past>>

\* A package set that failed is collected again and again.
CollectAgain(s) ==
  /\ pc[s] = "collect" /\ k[s] <= Len(Selection[s]) /\ urls[Selection[s][k[s]]].exists
  /\ \/ /\ collected' = [collected EXCEPT ![s] = @ \cup {Selection[s][k[s]]}]
        /\ k' = [k EXCEPT ![s] = @ + 1]
        /\ UNCHANGED failures
     \/ /\ failures' = [failures EXCEPT ![s] = @ + 1]
        /\ UNCHANGED <<k, collected>>
  /\ UNCHANGED <<pc, page, temp, result, files, world, past>>

\* collect_dynamic.sh succeeds or fails.
Collect(s) ==
  /\ pc[s] = "collect" /\ k[s] <= Len(Selection[s]) /\ urls[Selection[s][k[s]]].exists
  /\ \/ /\ collected' = [collected EXCEPT ![s] = @ \cup {Selection[s][k[s]]}]
        /\ UNCHANGED failures
     \/ /\ failures' = [failures EXCEPT ![s] = @ + 1]
        /\ UNCHANGED collected
  /\ k' = [k EXCEPT ![s] = @ + 1]
  /\ UNCHANGED <<pc, page, temp, result, files, world, past>>

CollectEnd(s) ==
  /\ pc[s] = "collect" /\ k[s] > Len(Selection[s])
  /\ Goto(s, "done") /\ Forget(s)
  /\ result' = [result EXCEPT ![s] = IF failures[s] > 0 THEN "failed" ELSE "ok"]
  /\ UNCHANGED <<failures, collected, files, world, owed, killed, mixed>>

-----------------------------------------------------------------------------
(* collect_arch_git.sh                                                      *)

\* mktemp -d, and the trap.
Generate(s) ==
  /\ pc[s] = "generate"
  /\ tempDir' = tempDir \cup {s}
  /\ k' = [k EXCEPT ![s] = 1]
  /\ Goto(s, "start")
  /\ UNCHANGED <<page, temp, failures, result, collected, packages, urls, world, past>>

\* fetch_repository begins.
FetchStart(s) ==
  /\ pc[s] = "start"
  /\ page' = [page EXCEPT ![s] = 1] /\ temp' = [temp EXCEPT ![s] = {}]
  /\ must' = [must EXCEPT ![s] = server[Current(s)]]
  /\ Goto(s, "fetch")
  /\ UNCHANGED <<k, failures, result, collected, files, world, owed, killed, mixed>>

\* What the server answers: page n of S.
Rank(x, S)    == Cardinality({y \in S : y <= x})
Results(n, S) == {x \in S : Rank(x, S) \in (n - 1) * PageSize + 1 .. n * PageSize}
NumPages(S)   == (Cardinality(S) + PageSize - 1) \div PageSize

\* The loop is left a page too early.
LastPageEarly(n, S) ==
  \/ Results(n, S) = {}
  \/ totals /\ n + 1 >= NumPages(S)
  \/ ~totals /\ Cardinality(Results(n, S)) < PageSize

\* The three breaks of the loop.
LastPage(n, S) ==
  \/ Results(n, S) = {}
  \/ totals /\ n >= NumPages(S)
  \/ ~totals /\ Cardinality(Results(n, S)) < PageSize

\* The page is never counted up.
FetchSamePage(s) ==
  /\ pc[s] = "fetch"
  /\ LET S == server[Current(s)] IN
       /\ temp' = [temp EXCEPT ![s] = @ \cup Results(page[s], S)]
       /\ \/ LastPage(page[s], S) /\ Goto(s, "sorted")
          \/ ~LastPage(page[s], S) /\ UNCHANGED pc
  /\ UNCHANGED <<k, page, failures, result, collected, files, world, past>>

\* One page is fetched and its records are appended.
Fetch(s) ==
  /\ pc[s] = "fetch"
  /\ LET S == server[Current(s)] IN
       /\ temp' = [temp EXCEPT ![s] = @ \cup Results(page[s], S)]
       /\ \/ LastPage(page[s], S) /\ Goto(s, "sorted") /\ UNCHANGED page
          \/ /\ ~LastPage(page[s], S)
             /\ page' = [page EXCEPT ![s] = @ + 1]
             /\ UNCHANGED pc
  /\ UNCHANGED <<k, failures, result, collected, files, world, past>>

\* The session ends without success, and the trap was set for success only.
FailKeepsTemp(s, why) ==
  /\ Goto(s, "done") /\ result' = [result EXCEPT ![s] = why] /\ Forget(s)
  /\ UNCHANGED tempDir

\* The session ends without success; rm -rf -- "$TEMP_DIR" if there is one.
Fail(s, why) ==
  /\ Goto(s, "done") /\ result' = [result EXCEPT ![s] = why] /\ Forget(s)
  /\ tempDir' = tempDir \ {s}

\* [[ ! -s ... ]]
Publishable(S) == S # {}

\* A session that ends between its two mv's leaves lists of two fetches.
Cut(s) == mixed' = IF pc[s] = "between" THEN mixed \cup {Current(s)} ELSE mixed

\* curl fails after its retries, the response is not what it should be, or,
\* under set -e, sort, awk or mv fails.
FetchFails(s) ==
  /\ pc[s] \in {"fetch", "sorted", "between"}
  /\ Fail(s, "failed") /\ Cut(s)
  /\ UNCHANGED <<failures, collected, packages, urls, world, owed, killed>>

\* "No package data generated"
NoData(s) ==
  /\ pc[s] = "sorted" /\ ~Publishable(temp[s])
  /\ Fail(s, "failed")
  /\ UNCHANGED <<failures, collected, packages, urls, world, owed, killed, mixed>>

Between(r) == {s \in Session : pc[s] = "between" /\ Current(s) = r}

\* sort -u; mv -- "$packages_temp" "$output_dir/packages.txt"
PublishPackages(s) ==
  /\ pc[s] = "sorted" /\ Publishable(temp[s])
  /\ packages' = [packages EXCEPT ![Current(s)] = File(temp[s])]
  /\ mixed' = IF Between(Current(s)) = {} THEN mixed \ {Current(s)}
              ELSE mixed \cup {Current(s)}
  /\ Goto(s, "between")
  /\ UNCHANGED <<k, page, temp, failures, result, collected, urls, tempDir, world,
                 must, owed, killed>>

\* awk prints the package name where the base belongs.
UrlLinesOfNames(S) == S

\* awk and sort -u
UrlLines(S) == Urls(S)

\* mv -- "$urls_temp" "$output_dir/clone_urls.txt"; then the next repository.
PublishUrls(s) ==
  /\ pc[s] = "between"
  /\ urls' = [urls EXCEPT ![Current(s)] = File(UrlLines(temp[s]))]
  /\ owed' = [owed EXCEPT ![Current(s)] = Urls(must[s])]
  /\ \/ /\ k[s] < 2 /\ k' = [k EXCEPT ![s] = @ + 1]
        /\ Goto(s, "start")
        /\ UNCHANGED <<page, temp, must, tempDir>>
     \/ /\ k[s] = 2 /\ Forget(s)
        /\ Goto(s, "collect")
        /\ tempDir' = tempDir \ {s}
  /\ UNCHANGED <<failures, result, collected, packages, world, killed, mixed>>

-----------------------------------------------------------------------------
(* The environment                                                          *)

Running(s) == pc[s] \notin {"off", "done"}

\* ^C or TERM: the trap runs.
Interrupt(s) ==
  /\ Running(s)
  /\ Fail(s, "interrupted") /\ Cut(s)
  /\ UNCHANGED <<failures, collected, packages, urls, world, owed, killed>>

\* KILL, or a crash of the machine: it does not.
Kill(s) ==
  /\ Running(s)
  /\ Goto(s, "done") /\ result' = [result EXCEPT ![s] = "killed"] /\ Forget(s)
  /\ killed' = killed \cup {s} /\ Cut(s)
  /\ UNCHANGED <<failures, collected, files, world, owed>>

\* A package appears, or disappears; what the server lists after it moves up.
Change(r, x) ==
  /\ changes < MaxChanges /\ changes' = changes + 1
  /\ \/ x \notin server[r] /\ server' = [server EXCEPT ![r] = @ \cup {x}] /\ UNCHANGED must
     \/ /\ x \in server[r] /\ server' = [server EXCEPT ![r] = @ \ {x}]
        /\ must' = [s \in Session |->
             IF pc[s] = "fetch" /\ Current(s) = r THEN {y \in must[s] : y < x} ELSE must[s]]
  /\ UNCHANGED <<totals, local, files, owed, killed, mixed>>

\* The user removes the list of a repository, to have it made anew.
RemoveList(r) ==
  /\ changes < MaxChanges /\ changes' = changes + 1
  /\ urls[r].exists
  /\ urls' = [urls EXCEPT ![r] = NoFile]
  /\ owed' = [owed EXCEPT ![r] = {}]
  /\ UNCHANGED <<server, totals, local, packages, tempDir, must, killed, mixed>>

Step(s) ==
  \/ Check(s) \/ CollectMissing(s) \/ Collect(s) \/ CollectEnd(s)
  \/ Generate(s) \/ FetchStart(s) \/ Fetch(s) \/ NoData(s)
  \/ PublishPackages(s) \/ PublishUrls(s)

Next ==
  \/ \E s \in Session : Step(s) \/ FetchFails(s) \/ Interrupt(s) \/ Kill(s)
  \/ \E r \in Repo : RemoveList(r) \/ \E x \in Package : Change(r, x)

Spec == Init /\ [][Next]_vars

\* Every command of a session ends; none need fail.
FairSpec == Spec /\ \A s \in Session : WF_vars(Step(s))

-----------------------------------------------------------------------------
(* Properties.                                                              *)

\* Type invariant of the module.
TypeOK ==
  /\ server \in [Repo -> SUBSET Package] /\ totals \in BOOLEAN
  /\ changes \in 0..MaxChanges
  /\ packages \in [Repo -> [exists : BOOLEAN, lines : SUBSET Package]]
  /\ urls \in [Repo -> [exists : BOOLEAN, lines : SUBSET Urls(Package)]]
  /\ pc \in [Session -> {"off", "generate", "start", "fetch", "sorted", "between",
                         "collect", "done"}]
  /\ \A s \in Session :
       /\ k[s] \in 1..(Len(Selection[s]) + 2)
       /\ page[s] \in Nat /\ failures[s] \in 0..Len(Selection[s])
  /\ temp \in [Session -> SUBSET Package] /\ must \in [Session -> SUBSET Package]
  /\ tempDir \subseteq Session /\ killed \subseteq Session
  /\ result \in [Session -> {"none", "ok", "failed", "interrupted", "killed"}]
  /\ owed \in [Repo -> SUBSET Urls(Package)]
  /\ collected \in [Session -> SUBSET Repo] /\ mixed \subseteq Repo

\* However the server changes between two pages, a list of URLs has every
\* package that was there all the time and before the place of any that
\* disappeared: what is added only makes the fetch see a package twice.
UrlsComplete == \A r \in Repo : owed[r] \subseteq urls[r].lines

\* packages.txt and clone_urls.txt of a repository are of the same fetch, unless
\* a session is between its two mv's, was ended there, or met another there.
ListsMatch ==
  \A r \in Repo :
    urls[r].exists /\ Between(r) = {} /\ r \notin mixed =>
      urls[r].lines = Urls(packages[r].lines)

\* "finished successfully" is only printed by a session that has collected every
\* package set it was asked for, also if a list disappears under it; and however
\* a session ends, short of a kill, its temporary directory is gone.
EndsClean ==
  \A s \in Session :
    /\ result[s] = "ok" =>
         \A i \in 1..Len(Selection[s]) : Selection[s][i] \in collected[s]
    /\ s \in tempDir => Running(s) \/ s \in killed

\* Every session ends: the server has a last page.
SessionEnds == \A s \in Session : Running(s) ~> pc[s] = "done"
=============================================================================
