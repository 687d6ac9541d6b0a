-------------------------- MODULE ArchListsProofs --------------------------
(***************************************************************************)
(* Proofs about collect_arch.sh and collect_arch_git.sh, for any number of *)
(* sessions that share a directory, any packages and page size, and a      *)
(* server that changes at any time.                                        *)
(***************************************************************************)
EXTENDS ArchLists, FiniteSetTheorems, SequenceTheorems, WellFoundedInduction, TLAPS

LEMMA RepoFacts ==
  /\ Repo = {"core", "extra"} /\ Order[1] = "core" /\ Order[2] = "extra"
  /\ \A i \in {1, 2} : Order[i] \in Repo
  /\ \A s \in Session : Len(Selection[s]) \in Nat
  /\ \A S \in Servers : S \in [Repo -> SUBSET Package]
<1>1. \A s \in Session : Len(Selection[s]) \in Nat
  BY InputAssumption, LenProperties
<1> QED BY <1>1, InputAssumption DEF Repo, Order

LEMMA UrlsOf == \A S \in SUBSET Package : Urls(S) \in SUBSET Urls(Package)
BY DEF Urls

-----------------------------------------------------------------------------
(* Types                                                                    *)

WorldOK ==
  /\ server \in [Repo -> SUBSET Package] /\ totals \in BOOLEAN
  /\ changes \in 0..MaxChanges
FilesOK ==
  /\ packages \in [Repo -> [exists : BOOLEAN, lines : SUBSET Package]]
  /\ urls \in [Repo -> [exists : BOOLEAN, lines : SUBSET Urls(Package)]]
  /\ owed \in [Repo -> SUBSET Urls(Package)] /\ mixed \subseteq Repo
LocalOK ==
  /\ pc \in [Session -> {"off", "generate", "start", "fetch", "sorted", "between",
                         "collect", "done"}]
  /\ result \in [Session -> {"none", "ok", "failed", "interrupted", "killed"}]
  /\ tempDir \subseteq Session /\ killed \subseteq Session
  /\ collected \in [Session -> SUBSET Repo]
FetchedOK == temp \in [Session -> SUBSET Package] /\ must \in [Session -> SUBSET Package]
NumbersOK ==
  /\ k \in [Session -> Nat] /\ page \in [Session -> Nat] /\ failures \in [Session -> Nat]
  /\ \A s \in Session : k[s] > 0

\* The server keeps its type.
LEMMA WorldStep ==
  ASSUME WorldOK, [Next]_vars
  PROVE  WorldOK'
<1> USE PackageAssumption
<1>1. ASSUME NEW s \in Session, Check(s) PROVE WorldOK'
  BY <1>1 DEF WorldOK, files, world, past, Goto, Check
<1>2. ASSUME NEW s \in Session, CollectMissing(s) PROVE WorldOK'
  BY <1>2 DEF WorldOK, files, world, past, CollectMissing
<1>3. ASSUME NEW s \in Session, Collect(s) PROVE WorldOK'
  BY <1>3 DEF WorldOK, files, world, past, Collect
<1>4. ASSUME NEW s \in Session, CollectEnd(s) PROVE WorldOK'
  BY <1>4 DEF WorldOK, files, world, Goto, Forget, CollectEnd
<1>5. ASSUME NEW s \in Session, Generate(s) PROVE WorldOK'
  BY <1>5 DEF WorldOK, world, past, Goto, Generate
<1>6. ASSUME NEW s \in Session, FetchStart(s) PROVE WorldOK'
  BY <1>6 DEF WorldOK, files, world, Goto, FetchStart
<1>7. ASSUME NEW s \in Session, Fetch(s) PROVE WorldOK'
  BY <1>7 DEF WorldOK, files, world, past, Goto, Fetch
<1>8. ASSUME NEW s \in Session, NoData(s) PROVE WorldOK'
  BY <1>8 DEF WorldOK, world, Goto, Forget, Fail, NoData
<1>9. ASSUME NEW s \in Session, PublishPackages(s) PROVE WorldOK'
  BY <1>9 DEF WorldOK, world, Goto, PublishPackages
<1>10. ASSUME NEW s \in Session, PublishUrls(s) PROVE WorldOK'
  BY <1>10 DEF WorldOK, world, Goto, Forget, PublishUrls
<1>11. ASSUME NEW s \in Session, FetchFails(s) PROVE WorldOK'
  BY <1>11 DEF WorldOK, world, Goto, Forget, Fail, Cut, FetchFails
<1>12. ASSUME NEW s \in Session, Interrupt(s) PROVE WorldOK'
  BY <1>12 DEF WorldOK, world, Goto, Forget, Fail, Cut, Interrupt
<1>13. ASSUME NEW s \in Session, Kill(s) PROVE WorldOK'
  BY <1>13 DEF WorldOK, files, world, Goto, Forget, Cut, Kill
<1>14. ASSUME NEW r \in Repo, RemoveList(r) PROVE WorldOK'
  BY <1>14 DEF WorldOK, local, RemoveList
<1>15. ASSUME NEW r \in Repo, NEW x \in Package, Change(r, x) PROVE WorldOK'
  BY <1>15 DEF WorldOK, local, files, Change
<1>16. CASE UNCHANGED vars
  BY <1>16 DEF WorldOK, local, files, world, past, vars
<1> QED
  BY <1>1, <1>2, <1>3, <1>4, <1>5, <1>6, <1>7, <1>8, <1>9, <1>10, <1>11, <1>12, <1>13,
    <1>14, <1>15, <1>16 DEF Next, Step

\* So do the places and results of the sessions,
LEMMA LocalStep ==
  ASSUME LocalOK, NumbersOK, [Next]_vars
  PROVE  LocalOK'
<1>1. ASSUME NEW s \in Session, Check(s) PROVE LocalOK'
  BY <1>1 DEF LocalOK, files, world, past, Goto, Check
<1>2. ASSUME NEW s \in Session, CollectMissing(s) PROVE LocalOK'
  BY <1>2 DEF LocalOK, files, world, past, CollectMissing
<1>3. ASSUME NEW s \in Session, Collect(s) PROVE LocalOK'
  <2>1. UNCHANGED <<pc, result, tempDir, killed>> BY <1>3 DEF Collect, files, past
  <2>2. Selection[s][k[s]] \in Repo
    <3>1. Selection[s] \in Seq(Repo) BY InputAssumption
    <3>2. k[s] \in 1..Len(Selection[s])
      BY <1>3, <3>1, LenProperties DEF Collect, NumbersOK
    <3> QED BY <3>1, <3>2, ElementOfSeq
  <2>3. collected' \in [Session -> SUBSET Repo] BY <1>3, <2>2 DEF Collect, LocalOK
  <2> QED BY <2>1, <2>3 DEF LocalOK
<1>4. ASSUME NEW s \in Session, CollectEnd(s) PROVE LocalOK'
  BY <1>4 DEF LocalOK, files, world, Goto, Forget, CollectEnd
<1>5. ASSUME NEW s \in Session, Generate(s) PROVE LocalOK'
  BY <1>5 DEF LocalOK, world, past, Goto, Generate
<1>6. ASSUME NEW s \in Session, FetchStart(s) PROVE LocalOK'
  BY <1>6 DEF LocalOK, files, world, Goto, FetchStart
<1>7. ASSUME NEW s \in Session, Fetch(s) PROVE LocalOK'
  BY <1>7 DEF LocalOK, files, world, past, Goto, Fetch
<1>8. ASSUME NEW s \in Session, NoData(s) PROVE LocalOK'
  BY <1>8 DEF LocalOK, world, Goto, Forget, Fail, NoData
<1>9. ASSUME NEW s \in Session, PublishPackages(s) PROVE LocalOK'
  BY <1>9 DEF LocalOK, world, Goto, PublishPackages
<1>10. ASSUME NEW s \in Session, PublishUrls(s) PROVE LocalOK'
  BY <1>10 DEF LocalOK, world, Goto, Forget, PublishUrls
<1>11. ASSUME NEW s \in Session, FetchFails(s) PROVE LocalOK'
  BY <1>11 DEF LocalOK, world, Goto, Forget, Fail, Cut, FetchFails
<1>12. ASSUME NEW s \in Session, Interrupt(s) PROVE LocalOK'
  BY <1>12 DEF LocalOK, world, Goto, Forget, Fail, Cut, Interrupt
<1>13. ASSUME NEW s \in Session, Kill(s) PROVE LocalOK'
  BY <1>13 DEF LocalOK, files, world, Goto, Forget, Cut, Kill
<1>14. ASSUME NEW r \in Repo, RemoveList(r) PROVE LocalOK'
  BY <1>14 DEF LocalOK, local, RemoveList
<1>15. ASSUME NEW r \in Repo, NEW x \in Package, Change(r, x) PROVE LocalOK'
  BY <1>15 DEF LocalOK, local, files, Change
<1>16. CASE UNCHANGED vars
  BY <1>16 DEF LocalOK, local, files, world, past, vars
<1> QED
  BY <1>1, <1>2, <1>3, <1>4, <1>5, <1>6, <1>7, <1>8, <1>9, <1>10, <1>11, <1>12, <1>13,
    <1>14, <1>15, <1>16 DEF Next, Step

\* and their counters.
LEMMA NumbersStep ==
  ASSUME NumbersOK, [Next]_vars
  PROVE  NumbersOK'
<1>1. ASSUME NEW s \in Session, Check(s) PROVE NumbersOK'
  BY <1>1 DEF NumbersOK, files, world, past, Goto, Check
<1>2. ASSUME NEW s \in Session, CollectMissing(s) PROVE NumbersOK'
  BY <1>2 DEF NumbersOK, files, world, past, CollectMissing
<1>3. ASSUME NEW s \in Session, Collect(s) PROVE NumbersOK'
  BY <1>3 DEF NumbersOK, files, world, past, Collect
<1>4. ASSUME NEW s \in Session, CollectEnd(s) PROVE NumbersOK'
  BY <1>4 DEF NumbersOK, files, world, Goto, Forget, CollectEnd
<1>5. ASSUME NEW s \in Session, Generate(s) PROVE NumbersOK'
  BY <1>5 DEF NumbersOK, world, past, Goto, Generate
<1>6. ASSUME NEW s \in Session, FetchStart(s) PROVE NumbersOK'
  BY <1>6 DEF NumbersOK, files, world, Goto, FetchStart
<1>7. ASSUME NEW s \in Session, Fetch(s) PROVE NumbersOK'
  BY <1>7 DEF NumbersOK, files, world, past, Goto, Fetch
<1>8. ASSUME NEW s \in Session, NoData(s) PROVE NumbersOK'
  BY <1>8 DEF NumbersOK, world, Goto, Forget, Fail, NoData
<1>9. ASSUME NEW s \in Session, PublishPackages(s) PROVE NumbersOK'
  BY <1>9 DEF NumbersOK, world, Goto, PublishPackages
<1>10. ASSUME NEW s \in Session, PublishUrls(s) PROVE NumbersOK'
  BY <1>10 DEF NumbersOK, world, Goto, Forget, PublishUrls
<1>11. ASSUME NEW s \in Session, FetchFails(s) PROVE NumbersOK'
  BY <1>11 DEF NumbersOK, world, Goto, Forget, Fail, Cut, FetchFails
<1>12. ASSUME NEW s \in Session, Interrupt(s) PROVE NumbersOK'
  BY <1>12 DEF NumbersOK, world, Goto, Forget, Fail, Cut, Interrupt
<1>13. ASSUME NEW s \in Session, Kill(s) PROVE NumbersOK'
  BY <1>13 DEF NumbersOK, files, world, Goto, Forget, Cut, Kill
<1>14. ASSUME NEW r \in Repo, RemoveList(r) PROVE NumbersOK'
  BY <1>14 DEF NumbersOK, local, RemoveList
<1>15. ASSUME NEW r \in Repo, NEW x \in Package, Change(r, x) PROVE NumbersOK'
  BY <1>15 DEF NumbersOK, local, files, Change
<1>16. CASE UNCHANGED vars
  BY <1>16 DEF NumbersOK, local, files, world, past, vars
<1> QED
  BY <1>1, <1>2, <1>3, <1>4, <1>5, <1>6, <1>7, <1>8, <1>9, <1>10, <1>11, <1>12, <1>13,
    <1>14, <1>15, <1>16 DEF Next, Step

\* A step of session s leaves the other sessions alone.
OnlyOf(s) ==
  \A t \in Session : t # s =>
    /\ pc'[t] = pc[t] /\ k'[t] = k[t] /\ page'[t] = page[t] /\ temp'[t] = temp[t]
    /\ failures'[t] = failures[t] /\ result'[t] = result[t]
    /\ collected'[t] = collected[t] /\ must'[t] = must[t]
    /\ (t \in tempDir' <=> t \in tempDir) /\ (t \in killed' <=> t \in killed)

LEMMA OnlyOwn ==
  ASSUME LocalOK, NumbersOK, FetchedOK, NEW s \in Session,
         Step(s) \/ FetchFails(s) \/ Interrupt(s) \/ Kill(s)
  PROVE  OnlyOf(s)
<1>1. CASE Check(s)
  BY <1>1 DEF OnlyOf, LocalOK, NumbersOK, FetchedOK, files, world, past, Goto, Check
<1>2. CASE CollectMissing(s)
  BY <1>2 DEF OnlyOf, LocalOK, NumbersOK, FetchedOK, files, world, past,
    CollectMissing
<1>3. CASE Collect(s)
  BY <1>3 DEF OnlyOf, LocalOK, NumbersOK, FetchedOK, files, world, past, Collect
<1>4. CASE CollectEnd(s)
  BY <1>4 DEF OnlyOf, LocalOK, NumbersOK, FetchedOK, files, world, Goto, Forget,
    CollectEnd
<1>5. CASE Generate(s)
  BY <1>5 DEF OnlyOf, LocalOK, NumbersOK, FetchedOK, world, past, Goto, Generate
<1>6. CASE FetchStart(s)
  BY <1>6 DEF OnlyOf, LocalOK, NumbersOK, FetchedOK, files, world, Goto, FetchStart
<1>7. CASE Fetch(s)
  BY <1>7 DEF OnlyOf, LocalOK, NumbersOK, FetchedOK, files, world, past, Goto, Fetch
<1>8. CASE NoData(s)
  BY <1>8 DEF OnlyOf, LocalOK, NumbersOK, FetchedOK, world, Goto, Forget, Fail, NoData
<1>9. CASE PublishPackages(s)
  BY <1>9 DEF OnlyOf, LocalOK, NumbersOK, FetchedOK, world, Goto, PublishPackages
<1>10. CASE PublishUrls(s)
  BY <1>10 DEF OnlyOf, LocalOK, NumbersOK, FetchedOK, world, Goto, Forget, PublishUrls
<1>11. CASE FetchFails(s)
  BY <1>11 DEF OnlyOf, LocalOK, NumbersOK, FetchedOK, world, Goto, Forget, Fail, Cut,
    FetchFails
<1>12. CASE Interrupt(s)
  BY <1>12 DEF OnlyOf, LocalOK, NumbersOK, FetchedOK, world, Goto, Forget, Fail, Cut,
    Interrupt
<1>13. CASE Kill(s)
  BY <1>13 DEF OnlyOf, LocalOK, NumbersOK, FetchedOK, files, world, Goto, Forget, Cut,
    Kill
<1> QED BY <1>1, <1>2, <1>3, <1>4, <1>5, <1>6, <1>7, <1>8, <1>9, <1>10, <1>11, <1>12,
    <1>13 DEF Step

\* How far a session is in its loops.
CountOK(s) ==
  /\ pc[s] = "collect" => k[s] <= Len(Selection[s]) + 1 /\ failures[s] <= k[s] - 1
  /\ pc[s] \in {"off", "generate", "done"} => k[s] = 1
  /\ pc[s] \in {"start", "fetch", "sorted", "between"} => k[s] \in {1, 2}
  /\ pc[s] \notin {"collect", "done"} => failures[s] = 0
  /\ failures[s] <= Len(Selection[s])
CountInv == \A s \in Session : CountOK(s)

LEMMA CountOthers ==
  ASSUME CountInv, NEW s \in Session, OnlyOf(s), CountOK(s)'
  PROVE  CountInv'
BY DEF CountInv, CountOK, OnlyOf

LEMMA CountAlone ==
  ASSUME CountInv, UNCHANGED <<pc, k, failures>>
  PROVE  CountInv'
BY DEF CountInv, CountOK

\* The counters stay within the loops.
LEMMA CountStep ==
  ASSUME CountInv, NumbersOK, LocalOK, FetchedOK, [Next]_vars
  PROVE  CountInv'
<1> USE RepoFacts
<1>1. ASSUME NEW s \in Session, Check(s) PROVE CountInv'
  <2>1. CountOK(s)'
    BY <1>1 DEF CountInv, CountOK, NumbersOK, LocalOK, files, world, past, Goto, Check
  <2> QED BY <1>1, <2>1, OnlyOwn, CountOthers DEF Step
<1>2. ASSUME NEW s \in Session, CollectMissing(s) PROVE CountInv'
  <2>1. CountOK(s)'
    BY <1>2 DEF CountInv, CountOK, NumbersOK, LocalOK, files, world, past,
      CollectMissing
  <2> QED BY <1>2, <2>1, OnlyOwn, CountOthers DEF Step
<1>3. ASSUME NEW s \in Session, Collect(s) PROVE CountInv'
  <2>1. CountOK(s)'
    BY <1>3 DEF CountInv, CountOK, NumbersOK, LocalOK, files, world, past, Collect
  <2> QED BY <1>3, <2>1, OnlyOwn, CountOthers DEF Step
<1>4. ASSUME NEW s \in Session, CollectEnd(s) PROVE CountInv'
  <2>1. CountOK(s)'
    BY <1>4 DEF CountInv, CountOK, NumbersOK, LocalOK, files, world, Goto, Forget,
      CollectEnd
  <2> QED BY <1>4, <2>1, OnlyOwn, CountOthers DEF Step
<1>5. ASSUME NEW s \in Session, Generate(s) PROVE CountInv'
  <2>1. CountOK(s)'
    BY <1>5 DEF CountInv, CountOK, NumbersOK, LocalOK, world, past, Goto, Generate
  <2> QED BY <1>5, <2>1, OnlyOwn, CountOthers DEF Step
<1>6. ASSUME NEW s \in Session, FetchStart(s) PROVE CountInv'
  <2>1. CountOK(s)'
    BY <1>6 DEF CountInv, CountOK, NumbersOK, LocalOK, files, world, Goto, FetchStart
  <2> QED BY <1>6, <2>1, OnlyOwn, CountOthers DEF Step
<1>7. ASSUME NEW s \in Session, Fetch(s) PROVE CountInv'
  <2>1. CountOK(s)'
    BY <1>7 DEF CountInv, CountOK, NumbersOK, LocalOK, files, world, past, Goto, Fetch
  <2> QED BY <1>7, <2>1, OnlyOwn, CountOthers DEF Step
<1>8. ASSUME NEW s \in Session, NoData(s) PROVE CountInv'
  <2>1. CountOK(s)'
    BY <1>8 DEF CountInv, CountOK, NumbersOK, LocalOK, world, Goto, Forget, Fail, NoData
  <2> QED BY <1>8, <2>1, OnlyOwn, CountOthers DEF Step
<1>9. ASSUME NEW s \in Session, PublishPackages(s) PROVE CountInv'
  <2>1. CountOK(s)'
    BY <1>9 DEF CountInv, CountOK, NumbersOK, LocalOK, world, Goto, PublishPackages
  <2> QED BY <1>9, <2>1, OnlyOwn, CountOthers DEF Step
<1>10. ASSUME NEW s \in Session, PublishUrls(s) PROVE CountInv'
  <2>1. CountOK(s)'
    <3>1. pc[s] = "between" /\ failures'[s] = failures[s]
      BY <1>10 DEF PublishUrls
    <3>2. k[s] \in {1, 2} /\ failures[s] = 0 BY <3>1 DEF CountInv, CountOK
    <3>3. \/ pc'[s] = "start" /\ k'[s] = k[s] + 1 /\ k[s] < 2
          \/ pc'[s] = "collect" /\ k'[s] = 1
      BY <1>10 DEF PublishUrls, Goto, Forget, LocalOK, NumbersOK
    <3>4. k'[s] \in {1, 2} /\ (pc'[s] = "collect" => k'[s] = 1) BY <3>2, <3>3
    <3>5. Len(Selection[s]) \in Nat BY RepoFacts
    <3> QED BY <3>1, <3>2, <3>3, <3>4, <3>5 DEF CountOK
  <2> QED BY <1>10, <2>1, OnlyOwn, CountOthers DEF Step
<1>11. ASSUME NEW s \in Session, FetchFails(s) PROVE CountInv'
  <2>1. CountOK(s)'
    BY <1>11 DEF CountInv, CountOK, NumbersOK, LocalOK, world, Goto, Forget, Fail, Cut,
      FetchFails
  <2> QED BY <1>11, <2>1, OnlyOwn, CountOthers DEF Step
<1>12. ASSUME NEW s \in Session, Interrupt(s) PROVE CountInv'
  <2>1. CountOK(s)'
    BY <1>12 DEF CountInv, CountOK, NumbersOK, LocalOK, world, Goto, Forget, Fail, Cut,
      Interrupt
  <2> QED BY <1>12, <2>1, OnlyOwn, CountOthers DEF Step
<1>13. ASSUME NEW s \in Session, Kill(s) PROVE CountInv'
  <2>1. CountOK(s)'
    BY <1>13 DEF CountInv, CountOK, NumbersOK, LocalOK, files, world, Goto, Forget, Cut,
      Kill
  <2> QED BY <1>13, <2>1, OnlyOwn, CountOthers DEF Step
<1>14. ASSUME NEW r \in Repo, RemoveList(r) PROVE CountInv'
  BY <1>14, CountAlone DEF RemoveList, local
<1>15. ASSUME NEW r \in Repo, NEW x \in Package, Change(r, x) PROVE CountInv'
  BY <1>15, CountAlone DEF Change, local
<1>16. CASE UNCHANGED vars
  BY <1>16 DEF CountInv, CountOK, NumbersOK, LocalOK, local, files, world, past, vars
<1> QED
  BY <1>1, <1>2, <1>3, <1>4, <1>5, <1>6, <1>7, <1>8, <1>9, <1>10, <1>11, <1>12, <1>13,
    <1>14, <1>15, <1>16 DEF Next, Step


\* The repository that a session fetches.
LEMMA CurrentRepo ==
  ASSUME CountInv, NEW s \in Session, pc[s] \in {"start", "fetch", "sorted", "between"}
  PROVE  Current(s) \in Repo
BY RepoFacts DEF CountInv, CountOK, Current

\* What the sessions have fetched keeps its type.
LEMMA FetchedStep ==
  ASSUME FetchedOK, WorldOK, CountInv, [Next]_vars
  PROVE  FetchedOK'
<1>1. ASSUME NEW s \in Session, Check(s) PROVE FetchedOK'
  BY <1>1 DEF FetchedOK, files, world, past, Goto, Check
<1>2. ASSUME NEW s \in Session, CollectMissing(s) PROVE FetchedOK'
  BY <1>2 DEF FetchedOK, files, world, past, CollectMissing
<1>3. ASSUME NEW s \in Session, Collect(s) PROVE FetchedOK'
  BY <1>3 DEF FetchedOK, files, world, past, Collect
<1>4. ASSUME NEW s \in Session, CollectEnd(s) PROVE FetchedOK'
  BY <1>4 DEF FetchedOK, files, world, Goto, Forget, CollectEnd
<1>5. ASSUME NEW s \in Session, Generate(s) PROVE FetchedOK'
  BY <1>5 DEF FetchedOK, world, past, Goto, Generate
<1>6. ASSUME NEW s \in Session, FetchStart(s) PROVE FetchedOK'
  <2>1. server[Current(s)] \in SUBSET Package BY <1>6, CurrentRepo DEF FetchStart, WorldOK
  <2> QED BY <1>6, <2>1 DEF FetchStart, FetchedOK
<1>7. ASSUME NEW s \in Session, Fetch(s) PROVE FetchedOK'
  <2>1. server[Current(s)] \in SUBSET Package BY <1>7, CurrentRepo DEF Fetch, WorldOK
  <2>2. Results(page[s], server[Current(s)]) \in SUBSET Package BY <2>1 DEF Results
  <2>3. temp' = [temp EXCEPT ![s] = @ \cup Results(page[s], server[Current(s)])]
        /\ must' = must
    BY <1>7 DEF Fetch, past
  <2> QED BY <2>2, <2>3 DEF FetchedOK
<1>8. ASSUME NEW s \in Session, NoData(s) PROVE FetchedOK'
  BY <1>8 DEF FetchedOK, world, Goto, Forget, Fail, NoData
<1>9. ASSUME NEW s \in Session, PublishPackages(s) PROVE FetchedOK'
  BY <1>9 DEF FetchedOK, world, Goto, PublishPackages
<1>10. ASSUME NEW s \in Session, PublishUrls(s) PROVE FetchedOK'
  BY <1>10 DEF FetchedOK, world, Goto, Forget, PublishUrls
<1>11. ASSUME NEW s \in Session, FetchFails(s) PROVE FetchedOK'
  BY <1>11 DEF FetchedOK, world, Goto, Forget, Fail, Cut, FetchFails
<1>12. ASSUME NEW s \in Session, Interrupt(s) PROVE FetchedOK'
  BY <1>12 DEF FetchedOK, world, Goto, Forget, Fail, Cut, Interrupt
<1>13. ASSUME NEW s \in Session, Kill(s) PROVE FetchedOK'
  BY <1>13 DEF FetchedOK, files, world, Goto, Forget, Cut, Kill
<1>14. ASSUME NEW r \in Repo, RemoveList(r) PROVE FetchedOK'
  BY <1>14 DEF FetchedOK, local, RemoveList
<1>15. ASSUME NEW r \in Repo, NEW x \in Package, Change(r, x) PROVE FetchedOK'
  BY <1>15 DEF FetchedOK, local, files, Change
<1>16. CASE UNCHANGED vars
  BY <1>16 DEF FetchedOK, local, files, world, past, vars
<1> QED
  BY <1>1, <1>2, <1>3, <1>4, <1>5, <1>6, <1>7, <1>8, <1>9, <1>10, <1>11, <1>12, <1>13,
    <1>14, <1>15, <1>16 DEF Next, Step

\* So do the lists.
LEMMA FilesStep ==
  ASSUME FilesOK, FetchedOK, CountInv, [Next]_vars
  PROVE  FilesOK'
<1>1. ASSUME NEW s \in Session, Check(s) PROVE FilesOK'
  BY <1>1 DEF FilesOK, files, world, past, Goto, Check
<1>2. ASSUME NEW s \in Session, CollectMissing(s) PROVE FilesOK'
  BY <1>2 DEF FilesOK, files, world, past, CollectMissing
<1>3. ASSUME NEW s \in Session, Collect(s) PROVE FilesOK'
  BY <1>3 DEF FilesOK, files, world, past, Collect
<1>4. ASSUME NEW s \in Session, CollectEnd(s) PROVE FilesOK'
  BY <1>4 DEF FilesOK, files, world, Goto, Forget, CollectEnd
<1>5. ASSUME NEW s \in Session, Generate(s) PROVE FilesOK'
  BY <1>5 DEF FilesOK, world, past, Goto, Generate
<1>6. ASSUME NEW s \in Session, FetchStart(s) PROVE FilesOK'
  BY <1>6 DEF FilesOK, files, world, Goto, FetchStart
<1>7. ASSUME NEW s \in Session, Fetch(s) PROVE FilesOK'
  BY <1>7 DEF FilesOK, files, world, past, Goto, Fetch
<1>8. ASSUME NEW s \in Session, NoData(s) PROVE FilesOK'
  BY <1>8 DEF FilesOK, world, Goto, Forget, Fail, NoData
<1>9. ASSUME NEW s \in Session, PublishPackages(s) PROVE FilesOK'
  <2> DEFINE r == Current(s)
  <2>1. r \in Repo BY <1>9, CurrentRepo DEF PublishPackages
  <2>2. File(temp[s]) \in [exists : BOOLEAN, lines : SUBSET Package]
    BY DEF FetchedOK, File
  <2>3. /\ packages' = [packages EXCEPT ![r] = File(temp[s])]
        /\ mixed' = mixed \ {r} \/ mixed' = mixed \cup {r}
        /\ UNCHANGED <<urls, owed>>
    BY <1>9 DEF PublishPackages
  <2> HIDE DEF r
  <2>4. packages' \in [Repo -> [exists : BOOLEAN, lines : SUBSET Package]]
    BY <2>2, <2>3 DEF FilesOK
  <2> QED BY <2>1, <2>3, <2>4 DEF FilesOK
<1>10. ASSUME NEW s \in Session, PublishUrls(s) PROVE FilesOK'
  <2> DEFINE r == Current(s)
  <2>1. r \in Repo BY <1>10, CurrentRepo DEF PublishUrls
  <2>2. File(UrlLines(temp[s])) \in [exists : BOOLEAN, lines : SUBSET Urls(Package)]
    <3>1. UrlLines(temp[s]) \in SUBSET Urls(Package) BY UrlsOf DEF FetchedOK, UrlLines
    <3> QED BY <3>1 DEF File
  <2>3. Urls(must[s]) \in SUBSET Urls(Package) BY UrlsOf DEF FetchedOK
  <2>4. /\ urls' = [urls EXCEPT ![r] = File(UrlLines(temp[s]))]
        /\ owed' = [owed EXCEPT ![r] = Urls(must[s])]
        /\ UNCHANGED <<packages, mixed>>
    BY <1>10 DEF PublishUrls
  <2> HIDE DEF r
  <2>5. urls' \in [Repo -> [exists : BOOLEAN, lines : SUBSET Urls(Package)]]
    BY <2>2, <2>4 DEF FilesOK
  <2>6. owed' \in [Repo -> SUBSET Urls(Package)] BY <2>3, <2>4 DEF FilesOK
  <2> QED BY <2>4, <2>5, <2>6 DEF FilesOK
<1>11. ASSUME NEW s \in Session, FetchFails(s) PROVE FilesOK'
  <2>1. UNCHANGED <<packages, urls, owed>> BY <1>11 DEF FetchFails, files
  <2>2. mixed' \subseteq Repo
    BY <1>11, CurrentRepo DEF FetchFails, Cut, FilesOK
  <2> QED BY <2>1, <2>2 DEF FilesOK
<1>12. ASSUME NEW s \in Session, Interrupt(s) PROVE FilesOK'
  <2>1. UNCHANGED <<packages, urls, owed>> BY <1>12 DEF Interrupt, files
  <2>2. mixed' \subseteq Repo
    BY <1>12, CurrentRepo DEF Interrupt, Cut, FilesOK
  <2> QED BY <2>1, <2>2 DEF FilesOK
<1>13. ASSUME NEW s \in Session, Kill(s) PROVE FilesOK'
  <2>1. UNCHANGED <<packages, urls, owed>> BY <1>13 DEF Kill, files
  <2>2. mixed' \subseteq Repo
    BY <1>13, CurrentRepo DEF Kill, Cut, FilesOK
  <2> QED BY <2>1, <2>2 DEF FilesOK
<1>14. ASSUME NEW r \in Repo, RemoveList(r) PROVE FilesOK'
  <2>1. NoFile \in [exists : BOOLEAN, lines : SUBSET Urls(Package)] BY DEF NoFile
  <2>2. /\ urls' = [urls EXCEPT ![r] = NoFile] /\ owed' = [owed EXCEPT ![r] = {}]
        /\ UNCHANGED <<packages, mixed>>
    BY <1>14 DEF RemoveList
  <2>3. urls' \in [Repo -> [exists : BOOLEAN, lines : SUBSET Urls(Package)]]
    BY <2>1, <2>2 DEF FilesOK
  <2>4. owed' \in [Repo -> SUBSET Urls(Package)] BY <2>2 DEF FilesOK
  <2> QED BY <2>2, <2>3, <2>4 DEF FilesOK
<1>15. ASSUME NEW r \in Repo, NEW x \in Package, Change(r, x) PROVE FilesOK'
  BY <1>15 DEF FilesOK, local, files, Change
<1>16. CASE UNCHANGED vars
  BY <1>16 DEF FilesOK, local, files, world, past, vars
<1> QED
  BY <1>1, <1>2, <1>3, <1>4, <1>5, <1>6, <1>7, <1>8, <1>9, <1>10, <1>11, <1>12, <1>13,
    <1>14, <1>15, <1>16 DEF Next, Step

TypeInv == WorldOK /\ LocalOK /\ NumbersOK /\ FetchedOK /\ FilesOK /\ CountInv

LEMMA TypeStep ==
  ASSUME TypeInv, [Next]_vars
  PROVE  TypeInv'
BY WorldStep, LocalStep, NumbersStep, CountStep, FetchedStep, FilesStep DEF TypeInv

LEMMA TypeInit ==
  ASSUME Init
  PROVE  TypeInv
<1> USE RepoFacts DEF Init
<1>1. WorldOK BY PackageAssumption DEF WorldOK
<1>2. LocalOK BY DEF LocalOK
<1>3. NumbersOK BY DEF NumbersOK
<1>4. FetchedOK BY DEF FetchedOK
<1>5. FilesOK BY DEF FilesOK, NoFile
<1>6. CountInv
  <2>1. \A s \in Session : pc[s] = "off" /\ k[s] = 1 /\ failures[s] = 0 OBVIOUS
  <2> HIDE DEF Init
  <2> QED BY <2>1 DEF CountInv, CountOK
<1> QED BY <1>1, <1>2, <1>3, <1>4, <1>5, <1>6 DEF TypeInv

LEMMA TypeAlways == Spec => []TypeInv
BY TypeInit, TypeStep, PTL DEF Spec

\* Type correctness, with the bounds on the counters of both scripts.
THEOREM TypeCorrect == Spec => []TypeOK
<1>1. TypeInv => TypeOK
  <2> SUFFICES ASSUME TypeInv PROVE TypeOK OBVIOUS
  <2>1. ASSUME NEW s \in Session
        PROVE  /\ k[s] \in 1..(Len(Selection[s]) + 2)
               /\ page[s] \in Nat /\ failures[s] \in 0..Len(Selection[s])
    <3>1. k[s] \in Nat /\ k[s] > 0 /\ failures[s] \in Nat /\ page[s] \in Nat
      BY DEF TypeInv, NumbersOK
    <3>2. pc[s] \in {"off", "generate", "start", "fetch", "sorted", "between",
                    "collect", "done"}
      BY DEF TypeInv, LocalOK
    <3>3. Len(Selection[s]) \in Nat BY RepoFacts
    <3>4. k[s] \in {1, 2} \/ k[s] <= Len(Selection[s]) + 1
      BY <3>2 DEF TypeInv, CountInv, CountOK
    <3>5. failures[s] <= Len(Selection[s]) BY DEF TypeInv, CountInv, CountOK
    <3> QED BY <3>1, <3>3, <3>4, <3>5
  <2> QED
    BY <2>1 DEF TypeInv, WorldOK, LocalOK, FetchedOK, FilesOK, TypeOK
<1> QED BY <1>1, TypeAlways, PTL

-----------------------------------------------------------------------------
(* How a session ends                                                       *)

\* What a session that has had no failure has collected, and who still has a
\* temporary directory.
EndOK(s) ==
  /\ pc[s] = "collect" /\ failures[s] = 0 =>
       \A i \in 1..(k[s] - 1) : Selection[s][i] \in collected[s]
  /\ pc[s] # "done" => result[s] = "none"
  /\ result[s] = "ok" => \A i \in 1..Len(Selection[s]) : Selection[s][i] \in collected[s]
  /\ s \in tempDir => pc[s] \in {"start", "fetch", "sorted", "between"} \/ s \in killed
EndInv == \A s \in Session : EndOK(s)

LEMMA EndOthers ==
  ASSUME EndInv, NEW s \in Session, OnlyOf(s), EndOK(s)'
  PROVE  EndInv'
BY DEF EndInv, EndOK, OnlyOf

LEMMA EndAlone ==
  ASSUME EndInv, UNCHANGED <<local, tempDir, killed>>
  PROVE  EndInv'
BY DEF EndInv, EndOK, local

\* A session without failures has collected what it has gone through.
LEMMA EndStep ==
  ASSUME EndInv, TypeInv, [Next]_vars
  PROVE  EndInv'
<1>1. ASSUME NEW s \in Session, Check(s) PROVE EndInv'
  <2>1. EndOK(s)'
    <3>1. /\ pc[s] = "off" /\ pc'[s] # "done" /\ k'[s] = k[s] /\ result'[s] = result[s]
          /\ collected'[s] = collected[s] /\ tempDir' = tempDir /\ killed' = killed
      BY <1>1 DEF Check, Goto, files, past, TypeInv, LocalOK
    <3>2. k'[s] - 1 = 0 BY <3>1 DEF TypeInv, CountInv, CountOK
    <3>3. 1..(k'[s] - 1) = {} BY <3>2
    <3>4. pc[s] # "done" BY <3>1
    <3>5. result'[s] = "none" BY <3>1, <3>4 DEF EndInv, EndOK
    <3>6. s \in tempDir' => s \in killed' BY <3>1 DEF EndInv, EndOK
    <3> QED BY <3>1, <3>3, <3>5, <3>6 DEF EndOK
  <2> QED BY <1>1, <2>1, OnlyOwn, EndOthers DEF Step, TypeInv
<1>2. ASSUME NEW s \in Session, CollectMissing(s) PROVE EndInv'
  <2>1. EndOK(s)'
    <3>1. /\ pc[s] = "collect" /\ pc'[s] = "collect" /\ result'[s] = result[s]
          /\ tempDir' = tempDir /\ killed' = killed
      BY <1>2 DEF CollectMissing, files, past, TypeInv, LocalOK
    <3>2. failures'[s] # 0 BY <1>2 DEF CollectMissing, TypeInv, NumbersOK
    <3>3. result'[s] = "none" /\ (s \in tempDir' => s \in killed')
      BY <3>1 DEF EndInv, EndOK
    <3> QED BY <3>1, <3>2, <3>3 DEF EndOK
  <2> QED BY <1>2, <2>1, OnlyOwn, EndOthers DEF Step, TypeInv
<1>3. ASSUME NEW s \in Session, Collect(s) PROVE EndInv'
  <2>1. EndOK(s)'
    <3>1. /\ pc[s] = "collect" /\ pc'[s] = "collect" /\ result'[s] = result[s]
          /\ tempDir' = tempDir /\ killed' = killed
      BY <1>3 DEF Collect, files, past, TypeInv, LocalOK
    <3>2. k[s] \in Nat /\ k[s] > 0 /\ k'[s] = k[s] + 1
      BY <1>3 DEF Collect, TypeInv, NumbersOK
    <3>3. \/ failures'[s] = failures[s]
             /\ collected'[s] = collected[s] \cup {Selection[s][k[s]]}
          \/ failures'[s] # 0
      BY <1>3 DEF Collect, TypeInv, NumbersOK, LocalOK
    <3>4. \A i \in 1..(k'[s] - 1) : i \in 1..(k[s] - 1) \/ i = k[s] BY <3>2
    <3>5. failures'[s] = 0 => \A i \in 1..(k'[s] - 1) : Selection[s][i] \in collected'[s]
      BY <3>1, <3>3, <3>4 DEF EndInv, EndOK
    <3>6. result'[s] = "none" /\ (s \in tempDir' => s \in killed')
      BY <3>1 DEF EndInv, EndOK
    <3> QED BY <3>1, <3>5, <3>6 DEF EndOK
  <2> QED BY <1>3, <2>1, OnlyOwn, EndOthers DEF Step, TypeInv
<1>4. ASSUME NEW s \in Session, CollectEnd(s) PROVE EndInv'
  <2>1. EndOK(s)'
    <3>1. /\ pc[s] = "collect" /\ pc'[s] = "done" /\ collected' = collected
          /\ tempDir' = tempDir /\ killed' = killed
      BY <1>4 DEF CollectEnd, Goto, files, TypeInv, LocalOK
    <3>2. result'[s] = "ok" => failures[s] = 0
      <4>1. result'[s] = IF failures[s] > 0 THEN "failed" ELSE "ok"
        BY <1>4 DEF CollectEnd, TypeInv, LocalOK
      <4>2. failures[s] \in Nat BY DEF TypeInv, NumbersOK
      <4> QED BY <4>1, <4>2
    <3>3. k[s] - 1 = Len(Selection[s])
      <4>1. k[s] > Len(Selection[s]) BY <1>4 DEF CollectEnd
      <4>2. k[s] <= Len(Selection[s]) + 1 BY <3>1 DEF TypeInv, CountInv, CountOK
      <4>3. k[s] \in Nat /\ Len(Selection[s]) \in Nat BY RepoFacts DEF TypeInv, NumbersOK
      <4> QED BY <4>1, <4>2, <4>3
    <3>4. failures[s] = 0 => \A i \in 1..Len(Selection[s]) : Selection[s][i] \in collected[s]
      BY <3>1, <3>3 DEF EndInv, EndOK
    <3>5. s \in tempDir => s \in killed BY <3>1 DEF EndInv, EndOK
    <3> QED BY <3>1, <3>2, <3>4, <3>5 DEF EndOK
  <2> QED BY <1>4, <2>1, OnlyOwn, EndOthers DEF Step, TypeInv
<1>5. ASSUME NEW s \in Session, Generate(s) PROVE EndInv'
  <2>1. EndOK(s)'
    BY <1>5 DEF EndInv, EndOK, TypeInv, NumbersOK, LocalOK, world, past, Goto, Generate
  <2> QED BY <1>5, <2>1, OnlyOwn, EndOthers DEF Step, TypeInv
<1>6. ASSUME NEW s \in Session, FetchStart(s) PROVE EndInv'
  <2>1. EndOK(s)'
    BY <1>6 DEF EndInv, EndOK, TypeInv, NumbersOK, LocalOK, files, world, Goto,
      FetchStart
  <2> QED BY <1>6, <2>1, OnlyOwn, EndOthers DEF Step, TypeInv
<1>7. ASSUME NEW s \in Session, Fetch(s) PROVE EndInv'
  <2>1. EndOK(s)'
    BY <1>7 DEF EndInv, EndOK, TypeInv, NumbersOK, LocalOK, files, world, past, Goto,
      Fetch
  <2> QED BY <1>7, <2>1, OnlyOwn, EndOthers DEF Step, TypeInv
<1>8. ASSUME NEW s \in Session, NoData(s) PROVE EndInv'
  <2>1. EndOK(s)'
    BY <1>8 DEF EndInv, EndOK, TypeInv, NumbersOK, LocalOK, world, Goto, Forget, Fail,
      NoData
  <2> QED BY <1>8, <2>1, OnlyOwn, EndOthers DEF Step, TypeInv
<1>9. ASSUME NEW s \in Session, PublishPackages(s) PROVE EndInv'
  <2>1. EndOK(s)'
    BY <1>9 DEF EndInv, EndOK, TypeInv, NumbersOK, LocalOK, world, Goto, PublishPackages
  <2> QED BY <1>9, <2>1, OnlyOwn, EndOthers DEF Step, TypeInv
<1>10. ASSUME NEW s \in Session, PublishUrls(s) PROVE EndInv'
  <2>1. EndOK(s)'
    BY <1>10 DEF EndInv, EndOK, TypeInv, NumbersOK, LocalOK, world, Goto, Forget,
      PublishUrls
  <2> QED BY <1>10, <2>1, OnlyOwn, EndOthers DEF Step, TypeInv
<1>11. ASSUME NEW s \in Session, FetchFails(s) PROVE EndInv'
  <2>1. EndOK(s)'
    BY <1>11 DEF EndInv, EndOK, TypeInv, NumbersOK, LocalOK, world, Goto, Forget, Fail,
      Cut, FetchFails
  <2> QED BY <1>11, <2>1, OnlyOwn, EndOthers DEF Step, TypeInv
<1>12. ASSUME NEW s \in Session, Interrupt(s) PROVE EndInv'
  <2>1. EndOK(s)'
    BY <1>12 DEF EndInv, EndOK, TypeInv, NumbersOK, LocalOK, world, Goto, Forget, Fail,
      Cut, Interrupt
  <2> QED BY <1>12, <2>1, OnlyOwn, EndOthers DEF Step, TypeInv
<1>13. ASSUME NEW s \in Session, Kill(s) PROVE EndInv'
  <2>1. EndOK(s)'
    BY <1>13 DEF EndInv, EndOK, TypeInv, NumbersOK, LocalOK, files, world, Goto, Forget,
      Cut, Kill
  <2> QED BY <1>13, <2>1, OnlyOwn, EndOthers DEF Step, TypeInv
<1>14. ASSUME NEW r \in Repo, RemoveList(r) PROVE EndInv'
  BY <1>14, EndAlone DEF RemoveList
<1>15. ASSUME NEW r \in Repo, NEW x \in Package, Change(r, x) PROVE EndInv'
  BY <1>15, EndAlone DEF Change, files
<1>16. CASE UNCHANGED vars
  BY <1>16 DEF EndInv, EndOK, TypeInv, NumbersOK, LocalOK, local, files, world, past,
    vars
<1> QED
  BY <1>1, <1>2, <1>3, <1>4, <1>5, <1>6, <1>7, <1>8, <1>9, <1>10, <1>11, <1>12, <1>13,
    <1>14, <1>15, <1>16 DEF Next, Step

\* Success means that everything was collected, and only a kill leaves a
\* temporary directory behind.
THEOREM SessionsEndClean == Spec => []EndsClean
<1>1. Init => EndInv
  BY DEF Init, EndInv, EndOK
<1>2. EndInv /\ TypeInv /\ [Next]_vars => EndInv'
  BY EndStep
<1>3. EndInv => EndsClean
  BY DEF EndInv, EndOK, EndsClean, Running
<1> QED BY <1>1, <1>2, <1>3, TypeAlways, PTL DEF Spec

-----------------------------------------------------------------------------
(* The two lists of a repository                                            *)

\* Between its two mv's a session's packages are those of packages.txt, and no
\* other session is there, unless the lists are known to be mixed.
At(s, r) == pc[s] = "between" /\ Order[k[s]] = r
MatchInv ==
  \A r \in Repo : r \notin mixed =>
    /\ \A s \in Session : At(s, r) => packages[r].lines = temp[s]
    /\ \A s, t \in Session : At(s, r) /\ At(t, r) => s = t
    /\ urls[r].exists /\ (\A s \in Session : ~At(s, r)) =>
         urls[r].lines = Urls(packages[r].lines)

\* A session that is not between its two mv's, before or after the step.
LEMMA MatchAside ==
  ASSUME MatchInv, NEW s \in Session, OnlyOf(s), UNCHANGED <<packages, urls, mixed>>,
         pc[s] # "between", pc'[s] # "between"
  PROVE  MatchInv'
<1>1. \A t \in Session, r \in Repo : At(t, r)' <=> At(t, r)
  BY DEF At, OnlyOf
<1>2. \A t \in Session, r \in Repo : At(t, r) => temp'[t] = temp[t]
  BY DEF At, OnlyOf
<1> QED BY <1>1, <1>2 DEF MatchInv

\* A session that ends, there or elsewhere.
LEMMA MatchCut ==
  ASSUME MatchInv, NEW s \in Session, OnlyOf(s), UNCHANGED <<packages, urls>>, Cut(s),
         pc'[s] # "between"
  PROVE  MatchInv'
<1> SUFFICES ASSUME NEW r \in Repo, r \notin mixed'
             PROVE  /\ \A t \in Session : At(t, r)' => packages[r].lines = temp'[t]
                    /\ \A t, u \in Session : At(t, r)' /\ At(u, r)' => t = u
                    /\ urls[r].exists /\ (\A t \in Session : ~At(t, r)') =>
                         urls[r].lines = Urls(packages[r].lines)
  BY DEF MatchInv
<1>1. r \notin mixed /\ ~At(s, r) BY DEF Cut, At, Current
<1>2. \A t \in Session : At(t, r)' <=> At(t, r)
  BY <1>1 DEF At, OnlyOf
<1>3. \A t \in Session : At(t, r) => temp'[t] = temp[t]
  BY <1>1 DEF OnlyOf
<1> QED BY <1>1, <1>2, <1>3 DEF MatchInv

\* The lists match whenever nobody is between its two mv's.
LEMMA MatchStep ==
  ASSUME MatchInv, TypeInv, [Next]_vars
  PROVE  MatchInv'
<1>1. ASSUME NEW s \in Session, Check(s) PROVE MatchInv'
  <2>1. OnlyOf(s) BY <1>1, OnlyOwn DEF Step, TypeInv
  <2>2. pc[s] # "between" /\ pc'[s] # "between" /\ UNCHANGED <<packages, urls, mixed>>
    BY <1>1 DEF Check, Goto, TypeInv, LocalOK, files, past
  <2> QED BY <2>1, <2>2, MatchAside
<1>2. ASSUME NEW s \in Session, CollectMissing(s) PROVE MatchInv'
  <2>1. OnlyOf(s) BY <1>2, OnlyOwn DEF Step, TypeInv
  <2>2. pc[s] # "between" /\ pc'[s] # "between" /\ UNCHANGED <<packages, urls, mixed>>
    BY <1>2 DEF CollectMissing, Goto, TypeInv, LocalOK, files, past
  <2> QED BY <2>1, <2>2, MatchAside
<1>3. ASSUME NEW s \in Session, Collect(s) PROVE MatchInv'
  <2>1. OnlyOf(s) BY <1>3, OnlyOwn DEF Step, TypeInv
  <2>2. pc[s] # "between" /\ pc'[s] # "between" /\ UNCHANGED <<packages, urls, mixed>>
    BY <1>3 DEF Collect, Goto, TypeInv, LocalOK, files, past
  <2> QED BY <2>1, <2>2, MatchAside
<1>4. ASSUME NEW s \in Session, CollectEnd(s) PROVE MatchInv'
  <2>1. OnlyOf(s) BY <1>4, OnlyOwn DEF Step, TypeInv
  <2>2. pc[s] # "between" /\ pc'[s] # "between" /\ UNCHANGED <<packages, urls, mixed>>
    BY <1>4 DEF CollectEnd, Goto, TypeInv, LocalOK, files, past
  <2> QED BY <2>1, <2>2, MatchAside
<1>5. ASSUME NEW s \in Session, Generate(s) PROVE MatchInv'
  <2>1. OnlyOf(s) BY <1>5, OnlyOwn DEF Step, TypeInv
  <2>2. pc[s] # "between" /\ pc'[s] # "between" /\ UNCHANGED <<packages, urls, mixed>>
    BY <1>5 DEF Generate, Goto, TypeInv, LocalOK, files, past
  <2> QED BY <2>1, <2>2, MatchAside
<1>6. ASSUME NEW s \in Session, FetchStart(s) PROVE MatchInv'
  <2>1. OnlyOf(s) BY <1>6, OnlyOwn DEF Step, TypeInv
  <2>2. pc[s] # "between" /\ pc'[s] # "between" /\ UNCHANGED <<packages, urls, mixed>>
    BY <1>6 DEF FetchStart, Goto, TypeInv, LocalOK, files, past
  <2> QED BY <2>1, <2>2, MatchAside
<1>7. ASSUME NEW s \in Session, Fetch(s) PROVE MatchInv'
  <2>1. OnlyOf(s) BY <1>7, OnlyOwn DEF Step, TypeInv
  <2>2. pc[s] # "between" /\ pc'[s] # "between" /\ UNCHANGED <<packages, urls, mixed>>
    BY <1>7 DEF Fetch, Goto, TypeInv, LocalOK, files, past
  <2> QED BY <2>1, <2>2, MatchAside
<1>8. ASSUME NEW s \in Session, NoData(s) PROVE MatchInv'
  <2>1. OnlyOf(s) BY <1>8, OnlyOwn DEF Step, TypeInv
  <2>2. pc[s] # "between" /\ pc'[s] # "between" /\ UNCHANGED <<packages, urls, mixed>>
    BY <1>8 DEF NoData, Fail, Goto, TypeInv, LocalOK
  <2> QED BY <2>1, <2>2, MatchAside
<1>9. ASSUME NEW s \in Session, PublishPackages(s) PROVE MatchInv'
  <2>1. OnlyOf(s) BY <1>9, OnlyOwn DEF Step, TypeInv
  <2> DEFINE q == Current(s)
  <2>2. /\ pc[s] = "sorted" /\ UNCHANGED <<k, temp, urls>>
        /\ packages' = [packages EXCEPT ![q] = File(temp[s])]
        /\ mixed' = IF Between(q) = {} THEN mixed \ {q} ELSE mixed \cup {q}
    BY <1>9 DEF PublishPackages
  <2>3. pc'[s] = "between" BY <1>9 DEF PublishPackages, Goto, TypeInv, LocalOK
  <2>4. q \in Repo /\ packages'[q].lines = temp[s]
        /\ \A r \in Repo : r # q => packages'[r] = packages[r]
    BY <2>2, CurrentRepo DEF TypeInv, FilesOK, File
  <2>5. /\ \A t \in Session : t # s => \A r \in Repo : At(t, r)' <=> At(t, r)
        /\ \A r \in Repo : At(s, r)' <=> r = q
        /\ \A r \in Repo : ~At(s, r)
    BY <2>1, <2>2, <2>3 DEF At, OnlyOf, Current
  <2>6. Between(q) = {} <=> \A t \in Session : ~At(t, q) BY DEF Between, At, Current
  <2> HIDE DEF q
  <2>7. ASSUME NEW r \in Repo, r \notin mixed'
        PROVE  /\ \A t \in Session : At(t, r)' => packages'[r].lines = temp'[t]
               /\ \A t, u \in Session : At(t, r)' /\ At(u, r)' => t = u
               /\ urls'[r].exists /\ (\A t \in Session : ~At(t, r)') =>
                    urls'[r].lines = Urls(packages'[r].lines)
    <3>1. CASE r = q
      <4>1. \A t \in Session : ~At(t, q) BY <2>2, <2>6, <2>7, <3>1
      <4> QED BY <2>2, <2>4, <2>5, <3>1, <4>1
    <3>2. CASE r # q
      <4>1. r \notin mixed BY <2>2, <2>7, <3>2
      <4>2. \A t \in Session : At(t, r)' <=> At(t, r) BY <2>5, <3>2
      <4> QED BY <2>2, <2>4, <3>2, <4>1, <4>2 DEF MatchInv
    <3> QED BY <3>1, <3>2
  <2> QED BY <2>7 DEF MatchInv
<1>10. ASSUME NEW s \in Session, PublishUrls(s) PROVE MatchInv'
  <2>1. OnlyOf(s) BY <1>10, OnlyOwn DEF Step, TypeInv
  <2> DEFINE q == Current(s)
  <2>2. /\ pc[s] = "between" /\ UNCHANGED <<packages, mixed>>
        /\ urls' = [urls EXCEPT ![q] = File(Urls(temp[s]))]
    BY <1>10 DEF PublishUrls, UrlLines
  <2>3. pc'[s] # "between" BY <1>10 DEF PublishUrls, Goto, TypeInv, LocalOK
  <2>4. q \in Repo /\ urls'[q].lines = Urls(temp[s])
        /\ \A r \in Repo : r # q => urls'[r] = urls[r]
    BY <2>2, CurrentRepo DEF TypeInv, FilesOK, File
  <2>5. /\ \A t \in Session : t # s => \A r \in Repo : At(t, r)' <=> At(t, r)
        /\ \A t \in Session : t # s => temp'[t] = temp[t]
        /\ \A r \in Repo : ~At(s, r)'
        /\ \A r \in Repo : At(s, r) <=> r = q
    BY <2>1, <2>2, <2>3 DEF At, OnlyOf, Current
  <2> HIDE DEF q
  <2>7. ASSUME NEW r \in Repo, r \notin mixed'
        PROVE  /\ \A t \in Session : At(t, r)' => packages'[r].lines = temp'[t]
               /\ \A t, u \in Session : At(t, r)' /\ At(u, r)' => t = u
               /\ urls'[r].exists /\ (\A t \in Session : ~At(t, r)') =>
                    urls'[r].lines = Urls(packages'[r].lines)
    <3>1. CASE r = q
      <4>1. r \notin mixed /\ At(s, r) BY <2>2, <2>5, <2>7, <3>1
      <4>2. packages[r].lines = temp[s] BY <4>1 DEF MatchInv
      <4>3. \A t \in Session : At(t, r) => t = s BY <4>1 DEF MatchInv
      <4>4. \A t \in Session : ~At(t, r)' BY <2>5, <4>3
      <4> QED BY <2>2, <2>4, <3>1, <4>2, <4>4
    <3>2. CASE r # q
      <4>1. \A t \in Session : At(t, r)' <=> At(t, r) BY <2>5, <3>2
      <4>2. \A t \in Session : At(t, r) => temp'[t] = temp[t] BY <2>5, <3>2
      <4> QED BY <2>2, <2>4, <2>7, <3>2, <4>1, <4>2 DEF MatchInv
    <3> QED BY <3>1, <3>2
  <2> QED BY <2>7 DEF MatchInv
<1>11. ASSUME NEW s \in Session, FetchFails(s) PROVE MatchInv'
  <2>1. OnlyOf(s) BY <1>11, OnlyOwn DEF TypeInv
  <2>2. pc'[s] # "between" /\ UNCHANGED <<packages, urls>> /\ Cut(s)
    BY <1>11 DEF FetchFails, Goto, Fail, TypeInv, LocalOK
  <2> QED BY <2>1, <2>2, MatchCut
<1>12. ASSUME NEW s \in Session, Interrupt(s) PROVE MatchInv'
  <2>1. OnlyOf(s) BY <1>12, OnlyOwn DEF TypeInv
  <2>2. pc'[s] # "between" /\ UNCHANGED <<packages, urls>> /\ Cut(s)
    BY <1>12 DEF Interrupt, Goto, Fail, TypeInv, LocalOK
  <2> QED BY <2>1, <2>2, MatchCut
<1>13. ASSUME NEW s \in Session, Kill(s) PROVE MatchInv'
  <2>1. OnlyOf(s) BY <1>13, OnlyOwn DEF TypeInv
  <2>2. pc'[s] # "between" /\ UNCHANGED <<packages, urls>> /\ Cut(s)
    BY <1>13 DEF Kill, Goto, TypeInv, LocalOK, files
  <2> QED BY <2>1, <2>2, MatchCut
<1>14. ASSUME NEW r \in Repo, RemoveList(r) PROVE MatchInv'
  <2>1. UNCHANGED <<pc, k, temp, packages, mixed>> /\ urls' = [urls EXCEPT ![r] = NoFile]
    BY <1>14 DEF RemoveList, local
  <2>2. \A q \in Repo : urls'[q] = urls[q] \/ ~urls'[q].exists
    BY <2>1 DEF TypeInv, FilesOK, NoFile
  <2>3. \A q \in Repo, s \in Session : At(s, q)' <=> At(s, q) BY <2>1 DEF At
  <2> QED BY <2>1, <2>2, <2>3 DEF MatchInv
<1>15. ASSUME NEW r \in Repo, NEW x \in Package, Change(r, x) PROVE MatchInv'
  <2>1. UNCHANGED <<pc, k, temp, packages, urls, mixed>> BY <1>15 DEF Change, local, files
  <2>2. \A q \in Repo, s \in Session : At(s, q)' <=> At(s, q) BY <2>1 DEF At
  <2> QED BY <2>1, <2>2 DEF MatchInv
<1>16. CASE UNCHANGED vars
  BY <1>16 DEF MatchInv, At, local, files, world, past, vars
<1> QED
  BY <1>1, <1>2, <1>3, <1>4, <1>5, <1>6, <1>7, <1>8, <1>9, <1>10, <1>11, <1>12, <1>13,
    <1>14, <1>15, <1>16 DEF Next, Step

\* packages.txt and clone_urls.txt of a repository are of one fetch, unless a
\* session is between its two mv's, was ended there, or met another there.
THEOREM ListsAlwaysMatch == Spec => []ListsMatch
<1>1. Init => MatchInv
  <2> SUFFICES ASSUME Init PROVE MatchInv OBVIOUS
  <2>1. \A s \in Session, r \in Repo : ~At(s, r) BY DEF Init, At
  <2>2. \A r \in Repo : ~urls[r].exists BY DEF Init, NoFile
  <2> QED BY <2>1, <2>2 DEF MatchInv
<1>2. MatchInv /\ TypeInv /\ [Next]_vars => MatchInv'
  BY MatchStep
<1>3. MatchInv => ListsMatch
  <2> SUFFICES ASSUME MatchInv, NEW r \in Repo, urls[r].exists, Between(r) = {},
                      r \notin mixed
               PROVE  urls[r].lines = Urls(packages[r].lines)
    BY DEF ListsMatch
  <2>1. \A s \in Session : ~At(s, r) BY DEF Between, At, Current
  <2> QED BY <2>1 DEF MatchInv
<1> QED BY <1>1, <1>2, <1>3, TypeAlways, PTL DEF Spec

-----------------------------------------------------------------------------
(* Pages                                                                    *)

\* A set of numbers has a least element,
LEMMA LeastNat ==
  ASSUME NEW T \in SUBSET Nat, T # {}
  PROVE  \E i \in T : \A j \in T : i <= j
<1>1. PICK i \in T : \A j \in T : <<j, i>> \notin OpToRel(<, Nat)
  BY NatLessThanWellFounded, WFMin
<1>2. i \in T /\ \A j \in T : ~(j < i)
  BY <1>1 DEF OpToRel
<1> QED BY <1>2

\* and a bounded one a greatest.
LEMMA GreatestNat ==
  ASSUME NEW T \in SUBSET Nat, T # {}, NEW z \in Nat, \A w \in T : w <= z
  PROVE  \E i \in T : \A j \in T : j <= i
<1> DEFINE B == {b \in Nat : \A w \in T : w <= b}
<1>1. PICK b \in B : \A c \in B : b <= c
  BY LeastNat
<1>2. b \in Nat /\ \A w \in T : w <= b OBVIOUS
<1>3. ASSUME b \notin T PROVE FALSE
  <2>1. \A w \in T : w \in Nat /\ w < b BY <1>2, <1>3
  <2>2. b > 0
    <3>1. PICK w \in T : TRUE OBVIOUS
    <3> QED BY <1>2, <2>1, <3>1
  <2>3. b - 1 \in B BY <1>2, <2>1, <2>2
  <2>4. b <= b - 1 BY <1>1, <2>3
  <2> QED BY <1>2, <2>4
<1> QED BY <1>2, <1>3

\* Ranks are numbers up to the number of packages.
LEMMA RankBound ==
  ASSUME NEW S \in SUBSET Package
  PROVE  /\ IsFiniteSet(S) /\ Cardinality(S) \in Nat
         /\ \A x \in Nat : IsFiniteSet({y \in S : y <= x})
         /\ \A x \in Nat : Rank(x, S) \in Nat /\ Rank(x, S) <= Cardinality(S)
<1>1. IsFiniteSet(S) /\ Cardinality(S) \in Nat
  BY PackageAssumption, FS_Subset, FS_CardinalityType
<1>2. ASSUME NEW x \in Nat
      PROVE  /\ IsFiniteSet({y \in S : y <= x})
             /\ Rank(x, S) \in Nat /\ Rank(x, S) <= Cardinality(S)
  <2>1. {y \in S : y <= x} \in SUBSET S OBVIOUS
  <2> QED BY <1>1, <2>1, FS_Subset, FS_CardinalityType DEF Rank
<1> QED BY <1>1, <1>2

\* No rank is skipped.
LEMMA RankOnto ==
  ASSUME NEW S \in SUBSET Package, NEW y \in S, NEW m \in Nat, m > 0, m <= Rank(y, S)
  PROVE  \E z \in S : Rank(z, S) = m
<1>0. \A w \in S : w \in Nat BY PackageAssumption
<1> DEFINE T == {z \in S : m <= Rank(z, S)}
<1>1. PICK z \in T : \A w \in T : z <= w
  <2>1. T \in SUBSET Nat /\ y \in T BY <1>0
  <2> QED BY <2>1, LeastNat
<1> DEFINE U == {w \in S : w < z}
           D == {w \in S : w <= z}
<1>2. z \in S /\ z \in Nat /\ m <= Rank(z, S) /\ Rank(z, S) \in Nat
  BY <1>0, <1>1, RankBound
<1>3. IsFiniteSet(U) /\ Rank(z, S) = Cardinality(U) + 1 /\ Cardinality(U) \in Nat
  <2>1. U \in SUBSET S OBVIOUS
  <2>2. IsFiniteSet(U) /\ Cardinality(U) \in Nat
    BY <2>1, RankBound, FS_Subset, FS_CardinalityType
  <2>3. D = U \cup {z}
    <3>1. \A w \in S : w <= z <=> w < z \/ w = z BY <1>0, <1>2
    <3> QED BY <1>2, <3>1
  <2>4. z \notin U BY <1>2
  <2>5. Cardinality(D) = Cardinality(U) + 1
    <3> HIDE DEF U, D
    <3> QED BY <2>2, <2>3, <2>4, FS_AddElement
  <2> QED BY <2>2, <2>5 DEF Rank
<1>4. ASSUME m < Rank(z, S) PROVE FALSE
  <2>1. Cardinality(U) >= m BY <1>2, <1>3, <1>4
  <2>2. U # {}
    <3> HIDE DEF U
    <3> QED BY <1>3, <2>1, FS_EmptySet
  <2>3. PICK u \in U : \A w \in U : w <= u
    <3>0. \A w \in S : w < z => w \in Nat /\ w <= z BY <1>0, <1>2
    <3>1. U \in SUBSET Nat /\ \A w \in U : w <= z BY <3>0
    <3> HIDE DEF U
    <3> QED BY <1>2, <2>2, <3>1, GreatestNat
  <2>4. u \in S /\ u \in Nat /\ u < z BY <1>0
  <2>5. {w \in S : w <= u} = U
    <3>1. \A w \in S : w <= u => w < z BY <1>0, <1>2, <2>4
    <3>2. \A w \in S : w < z => w <= u BY <2>3
    <3> QED BY <3>1, <3>2
  <2>6. Rank(u, S) = Cardinality(U) BY <2>5 DEF Rank
  <2>7. u \in T BY <2>1, <2>4, <2>6
  <2>8. z <= u BY <1>1, <2>7
  <2> QED BY <1>2, <2>4, <2>8
<1>5. Rank(z, S) = m BY <1>2, <1>4
<1> QED BY <1>2, <1>5

\* What a new package does to the ranks, and one that disappears.
LEMMA RankChange ==
  ASSUME NEW S \in SUBSET Package, NEW x \in Package, NEW y \in Package
  PROVE  /\ Rank(y, S) <= Rank(y, S \cup {x})
         /\ y < x => Rank(y, S \ {x}) = Rank(y, S)
<1> x \in Nat /\ y \in Nat BY PackageAssumption
<1> DEFINE A == {w \in S : w <= y}
           B == {w \in S \cup {x} : w <= y}
           C == {w \in S \ {x} : w <= y}
<1>1. A \in SUBSET B OBVIOUS
<1>2. IsFiniteSet(B) BY RankBound
<1>3. Cardinality(A) <= Cardinality(B)
  <2> HIDE DEF A, B
  <2> QED BY <1>1, <1>2, FS_Subset
<1>4. y < x => C = A OBVIOUS
<1> QED BY <1>3, <1>4 DEF Rank

\* Where the pages begin and end.
LEMMA PageBounds ==
  ASSUME NEW n \in Nat, n > 0
  PROVE  /\ (n - 1) * PageSize \in Nat /\ n * PageSize \in Nat
         /\ n * PageSize = (n - 1) * PageSize + PageSize
         /\ (n + 1 - 1) * PageSize = n * PageSize
         /\ PageSize \in Nat /\ PageSize > 0
BY PackageAssumption

\* After the page that ends the loop there is nothing more: a page is empty, or
\* has fewer packages than a page can have, or has the number of the last one
\* only when no package has a rank beyond it.
LEMMA LastPageEnds ==
  ASSUME NEW S \in SUBSET Package, NEW n \in Nat, n > 0, LastPage(n, S), NEW y \in S
  PROVE  Rank(y, S) <= n * PageSize
<1> DEFINE a == (n - 1) * PageSize
           b == n * PageSize
           R == Results(n, S)
<1>1. a \in Nat /\ b \in Nat /\ b = a + PageSize /\ PageSize \in Nat /\ PageSize > 0
  BY PageBounds
<1>2. y \in Nat /\ Rank(y, S) \in Nat /\ Rank(y, S) <= Cardinality(S)
      /\ Cardinality(S) \in Nat
  BY RankBound, PackageAssumption
<1>3. R = {z \in S : Rank(z, S) \in a + 1 .. b} BY DEF Results
<1> SUFFICES ASSUME Rank(y, S) > b PROVE FALSE
  BY <1>1, <1>2
<1>4. ASSUME NEW m \in a + 1 .. b PROVE \E z \in R : Rank(z, S) = m
  <2> HIDE DEF a, b, R
  <2>1. m \in Nat /\ m > 0 /\ m <= Rank(y, S) BY <1>1, <1>2
  <2>2. PICK z \in S : Rank(z, S) = m BY <2>1, RankOnto
  <2> QED BY <1>3, <2>2
<1>5. CASE R = {}
  <2> HIDE DEF a, b, R
  <2>1. a + 1 \in a + 1 .. b BY <1>1
  <2> QED BY <1>4, <1>5, <2>1
<1>6. CASE n >= NumPages(S)
  <2>1. \A c \in Nat : (c + PageSize - 1) \div PageSize <= n => c <= n * PageSize
    BY <1>1
  <2> QED BY <1>1, <1>2, <1>6, <2>1 DEF NumPages
<1>7. CASE Cardinality(R) < PageSize
  <2> DEFINE f == [z \in R |-> Rank(z, S)]
  <2>1. \A m \in a + 1 .. b : \E z \in R : f[z] = m BY <1>4
  <2>2. f \in [R -> a + 1 .. b] BY <1>3
  <2>3. f \in Surjection(R, a + 1 .. b) BY <2>1, <2>2 DEF Surjection
  <2>4. IsFiniteSet(R) /\ Cardinality(R) \in Nat
    <3>1. R \in SUBSET S BY <1>3
    <3> HIDE DEF R
    <3> QED BY <3>1, RankBound, FS_Subset, FS_CardinalityType
  <2> HIDE DEF a, b, R, f
  <2>5. Cardinality(a + 1 .. b) <= Cardinality(R) BY <2>3, <2>4, FS_Surjection
  <2>6. Cardinality(a + 1 .. b) = b - (a + 1) + 1
    <3>1. a + 1 \in Int /\ b \in Int /\ ~(a + 1 > b) BY <1>1
    <3> QED BY <3>1, FS_Interval
  <2> QED BY <1>1, <1>7, <2>4, <2>5, <2>6
<1> QED BY <1>5, <1>6, <1>7 DEF LastPage

\* A package whose rank is on page n or before it is in the answer, or before it.
LEMMA OnPage ==
  ASSUME NEW S \in SUBSET Package, NEW n \in Nat, n > 0, NEW y \in S,
         Rank(y, S) <= n * PageSize
  PROVE  Rank(y, S) <= (n - 1) * PageSize \/ y \in Results(n, S)
<1> DEFINE a == (n - 1) * PageSize
           b == n * PageSize
<1>1. a \in Nat /\ b \in Nat BY PageBounds
<1>2. Rank(y, S) \in Nat BY RankBound, PackageAssumption
<1>3. Results(n, S) = {z \in S : Rank(z, S) \in a + 1 .. b} BY DEF Results
<1> HIDE DEF a, b
<1>4. Rank(y, S) <= b BY DEF b
<1>5. Rank(y, S) <= a \/ Rank(y, S) \in a + 1 .. b BY <1>1, <1>2, <1>4
<1>6. Rank(y, S) <= a \/ y \in Results(n, S) BY <1>3, <1>5
<1> QED BY <1>6 DEF a

\* The first rank is 1.
LEMMA RankPositive ==
  ASSUME NEW S \in SUBSET Package, NEW y \in S
  PROVE  Rank(y, S) \in Nat /\ Rank(y, S) > 0
<1>1. y \in Nat BY PackageAssumption
<1> DEFINE A == {w \in S : w <= y}
<1>2. IsFiniteSet(A) /\ Cardinality(A) \in Nat BY <1>1, RankBound DEF Rank
<1>3. A # {} BY <1>1
<1>4. Cardinality(A) # 0
  <2> HIDE DEF A
  <2> QED BY <1>2, <1>3, FS_EmptySet
<1> QED BY <1>2, <1>4 DEF Rank

-----------------------------------------------------------------------------
(* What a list has                                                          *)

\* The pages fetched so far have everything that must be there and has its place
\* on them; after the last page nothing is missing.
FetchOK(s) ==
  /\ pc[s] = "fetch" =>
       /\ page[s] > 0 /\ must[s] \subseteq server[Order[k[s]]]
       /\ \A x \in must[s] :
            Rank(x, server[Order[k[s]]]) <= (page[s] - 1) * PageSize => x \in temp[s]
  /\ pc[s] \in {"sorted", "between"} => must[s] \subseteq temp[s]
FetchInv == \A s \in Session : FetchOK(s)

LEMMA FetchOthers ==
  ASSUME FetchInv, NEW s \in Session, OnlyOf(s), server' = server, FetchOK(s)'
  PROVE  FetchInv'
<1> SUFFICES ASSUME NEW t \in Session, t # s PROVE FetchOK(t)'
  BY DEF FetchInv
<1>1. /\ pc'[t] = pc[t] /\ k'[t] = k[t] /\ page'[t] = page[t] /\ temp'[t] = temp[t]
      /\ must'[t] = must[t]
  BY DEF OnlyOf
<1> QED BY <1>1 DEF FetchInv, FetchOK

\* Every package a fetch must have is on a page it has had, or still to come.
LEMMA FetchStep ==
  ASSUME FetchInv, TypeInv, [Next]_vars
  PROVE  FetchInv'
<1>1. ASSUME NEW s \in Session, Check(s) PROVE FetchInv'
  <2>1. FetchOK(s)'
    BY <1>1 DEF FetchInv, FetchOK, TypeInv, NumbersOK, LocalOK, files, world, past,
      Goto, Check
  <2> QED BY <1>1, <2>1, OnlyOwn, FetchOthers DEF Step, TypeInv, world, Check
<1>2. ASSUME NEW s \in Session, CollectMissing(s) PROVE FetchInv'
  <2>1. FetchOK(s)'
    BY <1>2 DEF FetchInv, FetchOK, TypeInv, NumbersOK, LocalOK, files, world, past,
      CollectMissing
  <2> QED BY <1>2, <2>1, OnlyOwn, FetchOthers DEF Step, TypeInv, world, CollectMissing
<1>3. ASSUME NEW s \in Session, Collect(s) PROVE FetchInv'
  <2>1. FetchOK(s)'
    BY <1>3 DEF FetchInv, FetchOK, TypeInv, NumbersOK, LocalOK, files, world, past,
      Collect
  <2> QED BY <1>3, <2>1, OnlyOwn, FetchOthers DEF Step, TypeInv, world, Collect
<1>4. ASSUME NEW s \in Session, CollectEnd(s) PROVE FetchInv'
  <2>1. FetchOK(s)'
    BY <1>4 DEF FetchInv, FetchOK, TypeInv, NumbersOK, LocalOK, files, world, Goto,
      Forget, CollectEnd
  <2> QED BY <1>4, <2>1, OnlyOwn, FetchOthers DEF Step, TypeInv, world, CollectEnd
<1>5. ASSUME NEW s \in Session, Generate(s) PROVE FetchInv'
  <2>1. FetchOK(s)'
    BY <1>5 DEF FetchInv, FetchOK, TypeInv, NumbersOK, LocalOK, world, past, Goto,
      Generate
  <2> QED BY <1>5, <2>1, OnlyOwn, FetchOthers DEF Step, TypeInv, world, Generate
<1>6. ASSUME NEW s \in Session, FetchStart(s) PROVE FetchInv'
  <2>1. FetchOK(s)'
    <3> DEFINE S == server[Order[k[s]]]
    <3>1. /\ pc'[s] = "fetch" /\ page'[s] = 1 /\ must'[s] = S /\ k' = k /\ server' = server
      BY <1>6 DEF FetchStart, Goto, world, Current, TypeInv, LocalOK, NumbersOK, FetchedOK
    <3>2. S \in SUBSET Package
      BY <1>6, CurrentRepo DEF FetchStart, Current, TypeInv, WorldOK
    <3>3. \A y \in S : ~(Rank(y, S) <= (1 - 1) * PageSize)
      <4>1. \A y \in S : Rank(y, S) \in Nat /\ Rank(y, S) > 0 BY <3>2, RankPositive
      <4>2. (1 - 1) * PageSize = 0 BY PackageAssumption
      <4> QED BY <4>1, <4>2
    <3> QED BY <3>1, <3>3 DEF FetchOK
  <2> QED BY <1>6, <2>1, OnlyOwn, FetchOthers DEF Step, TypeInv, world, FetchStart
<1>7. ASSUME NEW s \in Session, Fetch(s) PROVE FetchInv'
  <2>1. FetchOK(s)'
    <3> DEFINE S == server[Order[k[s]]]
               n == page[s]
    <3>1. /\ pc[s] = "fetch" /\ must' = must /\ k' = k /\ server' = server
          /\ temp'[s] = temp[s] \cup Results(n, S)
          /\ \/ LastPage(n, S) /\ pc'[s] = "sorted"
             \/ ~LastPage(n, S) /\ pc'[s] = "fetch" /\ page'[s] = n + 1
      BY <1>7 DEF Fetch, Goto, world, past, Current, TypeInv, LocalOK, NumbersOK, FetchedOK
    <3>2. S \in SUBSET Package
      BY <3>1, CurrentRepo DEF Current, TypeInv, WorldOK
    <3>3. n \in Nat /\ n > 0 /\ must[s] \subseteq S
      BY <3>1 DEF FetchInv, FetchOK, TypeInv, NumbersOK
    <3>4. \A y \in must[s] : Rank(y, S) <= (n - 1) * PageSize => y \in temp[s]
      BY <3>1 DEF FetchInv, FetchOK
    <3> HIDE DEF S, n
    <3>5. \A y \in must[s] : Rank(y, S) <= n * PageSize => y \in temp'[s]
      BY <3>1, <3>2, <3>3, <3>4, OnPage
    <3>6. CASE LastPage(n, S)
      <4>1. \A y \in must[s] : Rank(y, S) <= n * PageSize
        BY <3>2, <3>3, <3>6, LastPageEnds
      <4>2. must'[s] \subseteq temp'[s] BY <3>1, <3>5, <4>1
      <4> QED BY <3>1, <3>6, <4>2 DEF FetchOK
    <3>7. CASE ~LastPage(n, S)
      <4>1. (n + 1 - 1) * PageSize = n * PageSize BY <3>3, PageBounds
      <4>2. \A y \in must[s] : Rank(y, S) <= (n + 1 - 1) * PageSize => y \in temp'[s]
        BY <3>5, <4>1
      <4>3. n + 1 > 0 BY <3>3
      <4> QED BY <3>1, <3>3, <3>7, <4>2, <4>3 DEF FetchOK, S
    <3> QED BY <3>6, <3>7
  <2> QED BY <1>7, <2>1, OnlyOwn, FetchOthers DEF Step, TypeInv, world, Fetch
<1>8. ASSUME NEW s \in Session, NoData(s) PROVE FetchInv'
  <2>1. FetchOK(s)'
    BY <1>8 DEF FetchInv, FetchOK, TypeInv, NumbersOK, LocalOK, world, Goto, Forget,
      Fail, NoData
  <2> QED BY <1>8, <2>1, OnlyOwn, FetchOthers DEF Step, TypeInv, world, NoData
<1>9. ASSUME NEW s \in Session, PublishPackages(s) PROVE FetchInv'
  <2>1. FetchOK(s)'
    <3>1. pc[s] = "sorted" /\ pc'[s] = "between" /\ must' = must /\ temp' = temp
      BY <1>9 DEF PublishPackages, Goto, TypeInv, LocalOK
    <3> QED BY <3>1 DEF FetchInv, FetchOK
  <2> QED BY <1>9, <2>1, OnlyOwn, FetchOthers DEF Step, TypeInv, world, PublishPackages
<1>10. ASSUME NEW s \in Session, PublishUrls(s) PROVE FetchInv'
  <2>1. FetchOK(s)'
    BY <1>10 DEF FetchInv, FetchOK, TypeInv, NumbersOK, LocalOK, world, Goto, Forget,
      PublishUrls
  <2> QED BY <1>10, <2>1, OnlyOwn, FetchOthers DEF Step, TypeInv, world, PublishUrls
<1>11. ASSUME NEW s \in Session, FetchFails(s) PROVE FetchInv'
  <2>1. FetchOK(s)'
    BY <1>11 DEF FetchInv, FetchOK, TypeInv, NumbersOK, LocalOK, world, Goto, Forget,
      Fail, Cut, FetchFails
  <2> QED BY <1>11, <2>1, OnlyOwn, FetchOthers DEF Step, TypeInv, world, FetchFails
<1>12. ASSUME NEW s \in Session, Interrupt(s) PROVE FetchInv'
  <2>1. FetchOK(s)'
    BY <1>12 DEF FetchInv, FetchOK, TypeInv, NumbersOK, LocalOK, world, Goto, Forget,
      Fail, Cut, Interrupt
  <2> QED BY <1>12, <2>1, OnlyOwn, FetchOthers DEF Step, TypeInv, world, Interrupt
<1>13. ASSUME NEW s \in Session, Kill(s) PROVE FetchInv'
  <2>1. FetchOK(s)'
    BY <1>13 DEF FetchInv, FetchOK, TypeInv, NumbersOK, LocalOK, files, world, Goto,
      Forget, Cut, Kill
  <2> QED BY <1>13, <2>1, OnlyOwn, FetchOthers DEF Step, TypeInv, world, Kill
<1>14. ASSUME NEW r \in Repo, RemoveList(r) PROVE FetchInv'
  <2>1. UNCHANGED <<pc, k, page, temp, must, server>> BY <1>14 DEF RemoveList, local
  <2> QED BY <2>1 DEF FetchInv, FetchOK
<1>15. ASSUME NEW r \in Repo, NEW x \in Package, Change(r, x) PROVE FetchInv'
  <2>1. UNCHANGED <<pc, k, page, temp>> BY <1>15 DEF Change, local
  <2> SUFFICES ASSUME NEW s \in Session PROVE FetchOK(s)'
    BY DEF FetchInv
  <2> DEFINE q == Order[k[s]]
             S == server[q]
  <2>2. must'[s] \subseteq must[s] BY <1>15 DEF Change, TypeInv, FetchedOK
  <2>3. CASE pc[s] # "fetch"
    BY <2>1, <2>2, <2>3 DEF FetchInv, FetchOK
  <2>4. CASE pc[s] = "fetch"
    <3>1. q \in Repo /\ S \in SUBSET Package
      BY <2>4, CurrentRepo DEF Current, TypeInv, WorldOK
    <3>2. \/ server'[q] = S /\ must'[s] = must[s]
          \/ server'[q] = S \cup {x} /\ must'[s] = must[s]
          \/ server'[q] = S \ {x} /\ must'[s] = {y \in must[s] : y < x}
      BY <1>15, <2>4, <3>1 DEF Change, Current, TypeInv, WorldOK, FetchedOK
    <3>3. /\ page[s] > 0 /\ page[s] \in Nat /\ must[s] \subseteq S
          /\ \A y \in must[s] : Rank(y, S) <= (page[s] - 1) * PageSize => y \in temp[s]
      BY <2>4 DEF FetchInv, FetchOK, TypeInv, NumbersOK
    <3>4. /\ must'[s] \subseteq server'[q]
          /\ \A y \in must'[s] : Rank(y, S) <= Rank(y, server'[q])
      <4>0. \A y \in Package : Rank(y, S) \in Nat BY <3>1, RankBound, PackageAssumption
      <4> HIDE DEF S, q
      <4>1. CASE server'[q] = S /\ must'[s] = must[s] BY <3>1, <3>3, <4>0, <4>1
      <4>2. CASE server'[q] = S \cup {x} /\ must'[s] = must[s]
        BY <3>1, <3>3, <4>2, RankChange
      <4>3. CASE server'[q] = S \ {x} /\ must'[s] = {y \in must[s] : y < x}
        <5>1. x \in Nat /\ \A y \in Package : y \in Nat BY PackageAssumption
        <5>2. must'[s] \subseteq server'[q] BY <3>1, <3>3, <4>3, <5>1
        <5>3. \A y \in must'[s] : Rank(y, S \ {x}) = Rank(y, S)
          BY <3>1, <3>3, <4>3, RankChange
        <5>4. \A y \in must'[s] : Rank(y, S) \in Nat /\ Rank(y, server'[q]) = Rank(y, S)
          BY <3>1, <3>3, <4>0, <4>3, <5>3
        <5>5. \A y \in must'[s] : Rank(y, S) <= Rank(y, server'[q]) BY <5>4
        <5> QED BY <5>2, <5>5
      <4> QED BY <3>2, <4>1, <4>2, <4>3
    <3>5. server'[q] \in SUBSET Package BY <3>1, <3>2
    <3>6. ASSUME NEW y \in must'[s], Rank(y, server'[q]) <= (page[s] - 1) * PageSize
          PROVE  y \in temp[s]
      <4>1. y \in must[s] /\ y \in S /\ y \in server'[q] BY <2>2, <3>3, <3>4
      <4>2. Rank(y, S) \in Nat /\ Rank(y, server'[q]) \in Nat
        <5> HIDE DEF S, q
        <5> QED BY <3>1, <3>5, <4>1, RankPositive
      <4>3. (page[s] - 1) * PageSize \in Nat BY <3>3, PageBounds
      <4>4. Rank(y, S) <= Rank(y, server'[q]) BY <3>4
      <4>5. Rank(y, S) <= (page[s] - 1) * PageSize
        <5> HIDE DEF S, q
        <5> QED BY <3>6, <4>2, <4>3, <4>4
      <4> QED BY <3>3, <4>1, <4>5
    <3> QED BY <2>1, <2>4, <3>3, <3>4, <3>6 DEF FetchOK
  <2> QED BY <2>3, <2>4
<1>16. CASE UNCHANGED vars
  BY <1>16 DEF FetchInv, FetchOK, TypeInv, NumbersOK, LocalOK, local, files, world,
    past, vars
<1> QED
  BY <1>1, <1>2, <1>3, <1>4, <1>5, <1>6, <1>7, <1>8, <1>9, <1>10, <1>11, <1>12, <1>13,
    <1>14, <1>15, <1>16 DEF Next, Step

\* A list keeps what it owes until it is made anew or removed.
LEMMA OwedStep ==
  ASSUME UrlsComplete, FetchInv, TypeInv, [Next]_vars
  PROVE  UrlsComplete'
<1>1. ASSUME NEW s \in Session, Check(s) PROVE UrlsComplete'
  BY <1>1 DEF UrlsComplete, files, world, past, Goto, Check
<1>2. ASSUME NEW s \in Session, CollectMissing(s) PROVE UrlsComplete'
  BY <1>2 DEF UrlsComplete, files, world, past, CollectMissing
<1>3. ASSUME NEW s \in Session, Collect(s) PROVE UrlsComplete'
  BY <1>3 DEF UrlsComplete, files, world, past, Collect
<1>4. ASSUME NEW s \in Session, CollectEnd(s) PROVE UrlsComplete'
  BY <1>4 DEF UrlsComplete, files, world, Goto, Forget, CollectEnd
<1>5. ASSUME NEW s \in Session, Generate(s) PROVE UrlsComplete'
  BY <1>5 DEF UrlsComplete, world, past, Goto, Generate
<1>6. ASSUME NEW s \in Session, FetchStart(s) PROVE UrlsComplete'
  BY <1>6 DEF UrlsComplete, files, world, Goto, FetchStart
<1>7. ASSUME NEW s \in Session, Fetch(s) PROVE UrlsComplete'
  BY <1>7 DEF UrlsComplete, files, world, past, Goto, Fetch
<1>8. ASSUME NEW s \in Session, NoData(s) PROVE UrlsComplete'
  BY <1>8 DEF UrlsComplete, world, Goto, Forget, Fail, NoData
<1>9. ASSUME NEW s \in Session, PublishPackages(s) PROVE UrlsComplete'
  BY <1>9 DEF UrlsComplete, world, Goto, PublishPackages
<1>10. ASSUME NEW s \in Session, PublishUrls(s) PROVE UrlsComplete'
  <2> DEFINE q == Current(s)
  <2>1. q \in Repo BY <1>10, CurrentRepo DEF PublishUrls, TypeInv
  <2>2. /\ pc[s] = "between" /\ urls' = [urls EXCEPT ![q] = File(Urls(temp[s]))]
        /\ owed' = [owed EXCEPT ![q] = Urls(must[s])]
    BY <1>10 DEF PublishUrls, UrlLines
  <2>3. must[s] \subseteq temp[s] BY <2>2 DEF FetchInv, FetchOK
  <2>4. Urls(must[s]) \subseteq Urls(temp[s]) BY <2>3 DEF Urls
  <2> HIDE DEF q
  <2>5. urls'[q].lines = Urls(temp[s]) /\ owed'[q] = Urls(must[s])
    BY <2>1, <2>2 DEF TypeInv, FilesOK, File
  <2>6. \A r \in Repo : r # q => urls'[r] = urls[r] /\ owed'[r] = owed[r]
    BY <2>2 DEF TypeInv, FilesOK
  <2>7. ASSUME NEW r \in Repo PROVE owed'[r] \subseteq urls'[r].lines
    BY <2>4, <2>5, <2>6 DEF UrlsComplete
  <2> QED BY <2>7 DEF UrlsComplete
<1>11. ASSUME NEW s \in Session, FetchFails(s) PROVE UrlsComplete'
  BY <1>11 DEF UrlsComplete, world, Goto, Forget, Fail, Cut, FetchFails
<1>12. ASSUME NEW s \in Session, Interrupt(s) PROVE UrlsComplete'
  BY <1>12 DEF UrlsComplete, world, Goto, Forget, Fail, Cut, Interrupt
<1>13. ASSUME NEW s \in Session, Kill(s) PROVE UrlsComplete'
  BY <1>13 DEF UrlsComplete, files, world, Goto, Forget, Cut, Kill
<1>14. ASSUME NEW r \in Repo, RemoveList(r) PROVE UrlsComplete'
  <2>1. \A q \in Repo : \/ owed'[q] = {}
                        \/ urls'[q] = urls[q] /\ owed'[q] = owed[q]
    BY <1>14 DEF RemoveList, TypeInv, FilesOK
  <2> QED BY <2>1 DEF UrlsComplete
<1>15. ASSUME NEW r \in Repo, NEW x \in Package, Change(r, x) PROVE UrlsComplete'
  BY <1>15 DEF UrlsComplete, local, files, Change
<1>16. CASE UNCHANGED vars
  BY <1>16 DEF UrlsComplete, local, files, world, past, vars
<1> QED
  BY <1>1, <1>2, <1>3, <1>4, <1>5, <1>6, <1>7, <1>8, <1>9, <1>10, <1>11, <1>12, <1>13,
    <1>14, <1>15, <1>16 DEF Next, Step

\* A list of URLs has every package that the server listed, before the place of
\* any it dropped, during the whole of the fetch.
THEOREM ListsComplete == Spec => []UrlsComplete
<1>1. Init => FetchInv /\ UrlsComplete
  BY DEF Init, FetchInv, FetchOK, UrlsComplete
<1>2. FetchInv /\ TypeInv /\ [Next]_vars => FetchInv'
  BY FetchStep
<1>3. UrlsComplete /\ FetchInv /\ TypeInv /\ [Next]_vars => UrlsComplete'
  BY OwedStep
<1> QED BY <1>1, <1>2, <1>3, TypeAlways, PTL DEF Spec
=============================================================================
