-------------------------- MODULE HeadlessBatchProofs --------------------------
(* Proofs of what a result folder promises, for all scenarios, requests,        *)
(* result sets and numbers of calls, folders and faults.                        *)
EXTENDS HeadlessBatch, FiniteSetTheorems, FunctionTheorems, SequenceTheorems,
        TLAPS

--------------------------------------------------------------------------------
(* The folder. One call is active at a time: the folder is checked once, before *)
(* it is prepared, and a second call could pass the check in between.           *)

Fields == {"phase", "request", "folder", "done", "at"}

\* What a call has written when it is past the check.
Written(b) ==
    LET c == call[b]
        files == Files(c.request)
    IN  /\ c.at \in 0..Len(files) - 1
        /\ \A file \in AllFiles : disk[c.folder][file] \in {b, NoOne}
        /\ disk[c.folder]["manifest"] = NoOne
        /\ \A i \in 1..c.at : disk[c.folder][files[i]] = b

CallInv(b) ==
    LET c == call[b]
    IN  /\ DOMAIN c = Fields
        /\ c.phase \in {"idle", "checked", "running", "ended", "failed"}
        /\ Active(b) => c.folder \in Folders
        /\ c.phase \in {"idle", "checked"} => c.at = 0
        /\ c.phase = "checked" => Empty(c.folder)
        /\ c.phase = "running" => Written(b)

\* A folder with a manifest is finished, and so is the call that finished it.
Finished(f) ==
    LET b == disk[f]["manifest"]
    IN  b # NoOne =>
            /\ call[b].phase = "ended"
            /\ \A file \in AllFiles : disk[f][file] \in {b, NoOne}
            /\ \A file \in ToSet(Files(call[b].request)) : disk[f][file] = b

FolderInv ==
    /\ DOMAIN call = Calls
    /\ disk \in [Folders -> [AllFiles -> Calls \cup {NoOne}]]
    /\ \A a, b \in Calls : Active(a) /\ Active(b) => a = b
    /\ \A b \in Calls : CallInv(b)
    /\ \A f \in Folders : Finished(f)

LEMMA FilesOfCall ==
    ASSUME NEW r
    PROVE  /\ Len(Files(r)) \in Nat \ {0, 1}
           /\ \A i \in 1..Len(Files(r)) : /\ Files(r)[i] \in AllFiles
                                          /\ Files(r)[i] = "manifest" <=> i = Len(Files(r))
           /\ ToSet(Files(r)) = {Files(r)[i] : i \in 1..Len(Files(r))}
<1>1. CASE r.set = OneShot
  BY <1>1 DEF Files, AllFiles, ToSet
<1>2. CASE r.set # OneShot
  BY <1>2 DEF Files, AllFiles, ToSet
<1> QED
  BY <1>1, <1>2

\* A step of one call that leaves the disk alone.
LEMMA QuietStepKeepsFolders ==
    ASSUME FolderInv, NEW b \in Calls, UNCHANGED disk,
           call[b].phase # "ended",
           DOMAIN call' = Calls,
           \A o \in Calls \ {b} : call'[o] = call[o],
           CallInv(b)',
           \A o \in Calls \ {b} : Active(o) => ~Active(b)'
    PROVE  FolderInv'
<1>1. \A o \in Calls \ {b} : CallInv(o)'
  BY DEF FolderInv, CallInv, Written, Active, Empty
<1>2. \A x, y \in Calls : Active(x)' /\ Active(y)' => x = y
  BY DEF FolderInv, Active
<1>3. ASSUME NEW f \in Folders
      PROVE  Finished(f)'
  <2>1. disk[f]["manifest"] \in Calls \cup {NoOne} /\ Finished(f)
    BY DEF FolderInv, AllFiles
  <2> QED
    BY <2>1 DEF Finished
<1> QED
  BY <1>1, <1>2, <1>3 DEF FolderInv

\* A call that is past its check puts one file into its folder.
LEMMA WritingKeepsFolders ==
    ASSUME FolderInv, NEW b \in Calls, Active(b),
           NEW file \in AllFiles, Writes(b, file),
           DOMAIN call' = Calls,
           \A o \in Calls \ {b} : call'[o] = call[o],
           call'[b].folder = call[b].folder,
           CallInv(b)',
           Finished(call[b].folder)'
    PROVE  FolderInv'
<1>1. /\ call[b].folder \in Folders
      /\ disk' \in [Folders -> [AllFiles -> Calls \cup {NoOne}]]
      /\ \A f \in Folders \ {call[b].folder} : disk'[f] = disk[f]
  BY DEF FolderInv, CallInv, Writes
<1>2. \A o \in Calls \ {b} : ~Active(o)
  BY DEF FolderInv
<1>3. \A o \in Calls \ {b} : CallInv(o)'
  BY <1>2 DEF FolderInv, CallInv, Active
<1>4. \A x, y \in Calls : Active(x)' /\ Active(y)' => x = y
  BY <1>2 DEF Active
<1>5. ASSUME NEW f \in Folders \ {call[b].folder}
      PROVE  Finished(f)'
  <2>1. disk[f]["manifest"] \in Calls \cup {NoOne} /\ Finished(f)
    BY DEF FolderInv, AllFiles
  <2>2. disk[f]["manifest"] # NoOne => disk[f]["manifest"] # b
    BY <2>1 DEF Finished, Active
  <2> QED
    BY <1>1, <2>1, <2>2 DEF Finished
<1> QED
  BY <1>1, <1>3, <1>4, <1>5 DEF FolderInv

LEMMA EnterKeepsFolders ==
    ASSUME ~Overlap, FolderInv, NEW b \in Calls, NEW r \in Requests, NEW f \in Folders,
           Enter(b, r, f)
    PROVE  FolderInv'
<1> DEFINE p == IF Accepted(r) /\ Empty(f) THEN "checked" ELSE "failed"
<1>1. /\ call[b].phase = "idle" /\ \A o \in Calls : ~Active(o)
      /\ call' = [call EXCEPT ![b].request = r, ![b].folder = f, ![b].phase = p]
      /\ UNCHANGED disk
  BY DEF Enter
<1>2. DOMAIN call[b] = Fields /\ call[b].at = 0
  BY <1>1 DEF FolderInv, CallInv
<1>3. /\ DOMAIN call' = Calls
      /\ \A o \in Calls \ {b} : call'[o] = call[o]
      /\ DOMAIN call'[b] = Fields
      /\ call'[b].phase = p /\ call'[b].folder = f /\ call'[b].at = 0
  BY <1>1, <1>2 DEF FolderInv, Fields
<1>4. CallInv(b)'
  BY <1>1, <1>3 DEF CallInv, Empty
<1> QED
  BY <1>1, <1>3, <1>4, QuietStepKeepsFolders

LEMMA PrepareKeepsFolders ==
    ASSUME FolderInv, NEW b \in Calls, Prepare(b)
    PROVE  FolderInv'
<1> DEFINE r == call[b].request
           p == IF r.set = OneShot \/ Runnable(r) THEN "running" ELSE "failed"
           f == call[b].folder
<1>1. /\ call[b].phase = "checked" /\ Active(b)
      /\ (UNCHANGED disk \/ Writes(b, "scenarios"))
      /\ call' = [call EXCEPT ![b].phase = p,
                              ![b].done = IF p = "failed" THEN <<>> ELSE @]
  BY DEF Prepare, Goes, Active
<1>2. DOMAIN call[b] = Fields /\ call[b].at = 0 /\ f \in Folders /\ Empty(f)
  BY <1>1 DEF FolderInv, CallInv
<1>3. /\ DOMAIN call' = Calls
      /\ \A o \in Calls \ {b} : call'[o] = call[o]
      /\ DOMAIN call'[b] = Fields
      /\ call'[b].phase = p /\ call'[b].folder = f /\ call'[b].at = 0
      /\ call'[b].request = r
  BY <1>1, <1>2 DEF FolderInv, Fields
<1>4. \A file \in AllFiles :
         disk'[f][file] = disk[f][file] \/ (file = "scenarios" /\ disk'[f][file] = b)
  BY <1>1, <1>2 DEF Writes, FolderInv
<1>5. \A file \in AllFiles : disk[f][file] = NoOne
  BY <1>2 DEF Empty
<1>6. Written(b)'
  <2>1. /\ \A file \in AllFiles : disk'[f][file] \in {b, NoOne}
        /\ disk'[f]["manifest"] = NoOne
    BY <1>4, <1>5 DEF AllFiles
  <2> QED
    BY <1>3, <2>1, FilesOfCall DEF Written
<1>7. CallInv(b)'
  BY <1>1, <1>2, <1>3, <1>6 DEF CallInv, Empty
<1>8. Finished(f)'
  BY <1>3, <1>4, <1>5 DEF Finished, AllFiles
<1>9. CASE UNCHANGED disk
  BY <1>1, <1>3, <1>7, <1>9, QuietStepKeepsFolders DEF FolderInv
<1>10. CASE Writes(b, "scenarios")
  BY <1>1, <1>3, <1>7, <1>8, <1>10, WritingKeepsFolders DEF AllFiles
<1> QED
  BY <1>1, <1>9, <1>10

LEMMA FinishKeepsFolders ==
    ASSUME FolderInv, NEW b \in Calls, Finish(b)
    PROVE  FolderInv'
<1>1. PICK d : call' = [call EXCEPT ![b].done = d]
  BY DEF Finish
<1>2. call[b].phase = "running" /\ Active(b) /\ UNCHANGED disk
  BY DEF Finish, Active
<1>3. /\ DOMAIN call' = Calls
      /\ \A o \in Calls \ {b} : call'[o] = call[o]
      /\ DOMAIN call'[b] = Fields
      /\ \A k \in Fields \ {"done"} : call'[b][k] = call[b][k]
  BY <1>1 DEF FolderInv, CallInv, Fields
<1>4. CallInv(b)'
  BY <1>2, <1>3 DEF FolderInv, CallInv, Fields, Active, Empty, Written
<1> QED
  BY <1>2, <1>3, <1>4, QuietStepKeepsFolders DEF FolderInv

LEMMA WriteKeepsFolders ==
    ASSUME FolderInv, NEW b \in Calls, Write(b)
    PROVE  FolderInv'
<1> DEFINE c == call[b]
           n == Len(Files(c.request))
           file == Files(c.request)[c.at + 1]
           f == c.folder
<1>1. c.phase = "running" /\ Active(b) /\ Writes(b, file)
  BY DEF Write, Active
<1>2. DOMAIN c = Fields /\ f \in Folders /\ Written(b)
  BY <1>1 DEF FolderInv, CallInv
<1>3. /\ c.at \in Nat /\ n \in Nat \ {0, 1} /\ c.at + 1 \in 1..n
      /\ file \in AllFiles /\ (file = "manifest" <=> c.at + 1 = n)
  BY <1>2, FilesOfCall DEF Written
<1>4. /\ DOMAIN call' = Calls
      /\ \A o \in Calls \ {b} : call'[o] = call[o]
      /\ DOMAIN call'[b] = Fields
      /\ call'[b].phase = IF c.at + 1 = n THEN "ended" ELSE "running"
      /\ call'[b].folder = f /\ call'[b].at = c.at + 1
      /\ call'[b].request = c.request
  BY <1>1, <1>2 DEF FolderInv, Fields, Write
<1>5. \A g \in AllFiles : disk'[f][g] = IF g = file THEN b ELSE disk[f][g]
  BY <1>1, <1>2, <1>3 DEF Writes, FolderInv
<1>6. /\ \A g \in AllFiles : disk'[f][g] \in {b, NoOne}
      /\ \A i \in 1..c.at + 1 : disk'[f][Files(c.request)[i]] = b
  <2>1. \A i \in 1..c.at + 1 : i = c.at + 1 \/ i \in 1..c.at
    BY <1>3
  <2>2. \A i \in 1..c.at + 1 : Files(c.request)[i] \in AllFiles
    BY <1>3, FilesOfCall
  <2> QED
    BY <1>2, <1>5, <2>1, <2>2 DEF Written
<1>7. c.at + 1 # n => disk'[f]["manifest"] = NoOne /\ c.at + 1 \in 0..n - 1
  <2> SUFFICES ASSUME c.at + 1 # n
               PROVE  disk'[f]["manifest"] = NoOne /\ c.at + 1 \in 0..n - 1
    OBVIOUS
  <2>1. disk[f]["manifest"] = NoOne /\ "manifest" \in AllFiles /\ file # "manifest"
    BY <1>2, <1>3 DEF Written, AllFiles
  <2>2. disk'[f]["manifest"] = NoOne
    BY <1>5, <2>1
  <2>3. c.at + 1 \in 0..n - 1
    BY <1>3
  <2> QED
    BY <2>2, <2>3
<1>8. CallInv(b)'
  BY <1>2, <1>4, <1>6, <1>7 DEF CallInv, Written
<1>9. Finished(f)'
  <2>1. CASE c.at + 1 # n
    BY <1>4, <1>7, <2>1 DEF Finished
  <2>2. CASE c.at + 1 = n
    <3>1. disk'[f]["manifest"] = b
      BY <1>3, <1>5, <2>2 DEF AllFiles
    <3>2. \A g \in ToSet(Files(c.request)) : disk'[f][g] = b
      BY <1>6, <2>2, FilesOfCall
    <3> QED
      BY <1>4, <1>6, <2>2, <3>1, <3>2 DEF Finished
  <2> QED
    BY <2>1, <2>2
<1> QED
  BY <1>1, <1>3, <1>4, <1>8, <1>9, WritingKeepsFolders

LEMMA FailKeepsFolders ==
    ASSUME FolderInv, NEW b \in Calls, Fail(b)
    PROVE  FolderInv'
<1>1. /\ Active(b) /\ UNCHANGED disk
      /\ call' = [call EXCEPT ![b].phase = "failed", ![b].done = <<>>]
  BY DEF Fail, Goes
<1>2. /\ DOMAIN call' = Calls
      /\ \A o \in Calls \ {b} : call'[o] = call[o]
      /\ DOMAIN call'[b] = Fields
      /\ call'[b].phase = "failed"
  BY <1>1 DEF FolderInv, CallInv, Fields
<1>3. CallInv(b)'
  BY <1>2 DEF CallInv, Active
<1> QED
  BY <1>1, <1>2, <1>3, QuietStepKeepsFolders DEF Active

LEMMA StepsKeepFolders ==
    ASSUME ~Overlap, FolderInv, [Next]_vars
    PROVE  FolderInv'
<1>1. CASE UNCHANGED vars
  BY <1>1 DEF vars, FolderInv, CallInv, Finished, Written, Active, Empty
<1> QED
  BY <1>1, EnterKeepsFolders, PrepareKeepsFolders, FinishKeepsFolders,
     WriteKeepsFolders, FailKeepsFolders DEF Next

LEMMA FoldersStart == Init => FolderInv
<1> SUFFICES ASSUME Init PROVE FolderInv
  OBVIOUS
<1>1. /\ call = [b \in Calls |-> Idle]
      /\ disk = [f \in Folders |-> [file \in AllFiles |-> NoOne]]
  BY DEF Init
<1>2. \A b \in Calls : ~Active(b) /\ CallInv(b)
  BY <1>1 DEF Idle, Active, CallInv, Fields
<1>3. \A f \in Folders : Finished(f)
  BY <1>1 DEF Finished, AllFiles
<1> QED
  BY <1>1, <1>2, <1>3 DEF FolderInv

\* Of calls that do not overlap: a folder with a manifest holds the results of
\* the call that wrote it, all of them and no others, whatever was refused,
\* failed or killed before.
THEOREM ManifestsAreTrue ==
    ASSUME ~Overlap
    PROVE  Spec => []ManifestVouches
<1>1. FolderInv => ManifestVouches
  BY DEF FolderInv, Finished, ManifestVouches
<1>2. FolderInv /\ [Next]_vars => FolderInv'
  BY StepsKeepFolders
<1> QED
  BY <1>1, <1>2, FoldersStart, PTL DEF Spec

\* Of calls that do not overlap: no call touches a folder that another one has
\* finished.
THEOREM FinishedFoldersStay ==
    ASSUME ~Overlap
    PROVE  Spec => PreviousResultsKept
<1> DEFINE Kept == \A f \in Folders : disk[f]["manifest"] # NoOne => disk'[f] = disk[f]
<1>1. FolderInv /\ [Next]_vars => [Kept]_vars
  <2> SUFFICES ASSUME FolderInv, Next, NEW f \in Folders, disk[f]["manifest"] # NoOne
               PROVE  disk'[f] = disk[f]
    BY DEF vars
  <2>1. ASSUME NEW b \in Calls, NEW file, Active(b), Writes(b, file),
               disk[call[b].folder]["manifest"] = NoOne
        PROVE  disk'[f] = disk[f]
    BY <2>1 DEF Writes, FolderInv
  <2>2. ASSUME NEW b \in Calls, Prepare(b)
        PROVE  disk'[f] = disk[f]
    <3>1. call[b].phase = "checked" /\ Active(b) /\ (UNCHANGED disk \/ Writes(b, "scenarios"))
      BY <2>2 DEF Prepare, Active
    <3>2. disk[call[b].folder]["manifest"] = NoOne
      BY <3>1 DEF FolderInv, CallInv, Empty, AllFiles
    <3> QED
      BY <2>1, <3>1, <3>2
  <2>3. ASSUME NEW b \in Calls, Write(b)
        PROVE  disk'[f] = disk[f]
    <3>1. call[b].phase = "running" /\ Active(b) /\ \E file : Writes(b, file)
      BY <2>3 DEF Write, Active
    <3>2. disk[call[b].folder]["manifest"] = NoOne
      BY <3>1 DEF FolderInv, CallInv, Written
    <3> QED
      BY <2>1, <3>1, <3>2
  <2> QED
    BY <2>2, <2>3 DEF Next, Enter, Finish, Fail
<1>2. FolderInv /\ [Next]_vars => FolderInv'
  BY StepsKeepFolders
<1> QED
  BY <1>1, <1>2, FoldersStart, PTL DEF Spec, PreviousResultsKept

--------------------------------------------------------------------------------
(* The rows. *)

\* The runs that differ from x in the scenario and the trial only.
Group(r, x) == {j \in Jobs(r) : /\ j.planner = x.planner /\ j.arm = x.arm
                               /\ j.clearance = x.clearance
                               /\ Label(r, j) = Label(r, x)}

\* Those of them whose scenario is in S.
Part(r, x, S) == {j \in Group(r, x) : j.scenario \in S}

LEMMA ArmsAreTriples ==
    ASSUME NEW r \in Requests, NEW a \in Arms(r)
    PROVE  a = <<a[1], a[2], a[3]>>
<1>1. CASE r.set = OneShot \/ r.backend = "grsim"
  BY <1>1 DEF Arms
<1>2. CASE r.set # OneShot /\ r.backend # "grsim" /\ r.set \in DOMAIN ResultSets
  BY <1>2, RequestAssumption DEF Arms
<1>3. CASE r.set # OneShot /\ r.backend # "grsim" /\ r.set \notin DOMAIN ResultSets
  <2>1. a \in r.policies \X r.horizons \X ToSet(r.periods)
    BY <1>3 DEF Arms, Grid
  <2> QED
    BY <2>1
<1> QED
  BY <1>1, <1>2, <1>3

LEMMA KeysAreGroups ==
    ASSUME NEW r \in Requests, NEW x \in Jobs(r)
    PROVE  {j \in Jobs(r) : Key(r, j) = Key(r, x)} = Group(r, x)
<1>1. ASSUME NEW j \in Jobs(r), Key(r, j) = Key(r, x)
      PROVE  j \in Group(r, x)
  <2>1. j.arm \in Arms(r) /\ x.arm \in Arms(r)
    BY DEF Jobs
  <2>2. j.arm[1] = x.arm[1] /\ j.arm[2] = x.arm[2] /\ j.arm[3] = x.arm[3]
    BY <1>1 DEF Key
  <2>3. j.arm = x.arm
    BY <2>1, <2>2, ArmsAreTriples
  <2> QED
    BY <1>1, <2>3 DEF Key, Group
<1>2. ASSUME NEW j \in Group(r, x)
      PROVE  j \in Jobs(r) /\ Key(r, j) = Key(r, x)
  BY DEF Group, Key
<1> QED
  BY <1>1, <1>2

LEMMA GroupsAreFinite ==
    ASSUME NEW r \in Requests, NEW x \in Jobs(r)
    PROVE  IsFiniteSet(Group(r, x))
<1> DEFINE T == Scenarios \X (1..Trials(r))
           G == Group(r, x)
           f == [j \in G |-> <<j.scenario, j.trial>>]
<1>1. Trials(r) \in Nat
  BY RequestAssumption DEF Trials
<1>2. IsFiniteSet(T)
  <2>1. IsFiniteSet(1..Trials(r))
    BY <1>1, FS_Interval
  <2> QED
    BY <2>1, FS_Product, RequestAssumption
<1>3. \A j \in G : j \in Jobs(r)
  BY DEF Group
<1>4. f \in [G -> T]
  BY <1>3 DEF Jobs
<1>5. ASSUME NEW j \in G, NEW k \in G, f[j] = f[k]
      PROVE  j = k
  <2>1. j.scenario = k.scenario /\ j.trial = k.trial
    BY <1>5
  <2>2. j.planner = k.planner /\ j.arm = k.arm /\ j.clearance = k.clearance
    BY DEF Group
  <2> QED
    BY <1>3, <2>1, <2>2 DEF Jobs
<1> HIDE DEF f
<1>6. f \in Injection(G, T)
  BY <1>4, <1>5, Fun_IsInj
<1> QED
  BY <1>2, <1>6, FS_Injection

\* The run of y's planner, arm and clearance that has j's scenario and trial.
Moved(j, y) == [scenario |-> j.scenario, planner |-> y.planner, arm |-> y.arm,
                clearance |-> y.clearance, trial |-> j.trial]

\* Two groups of one label have the same runs of the same scenarios.
LEMMA GroupsMatch ==
    ASSUME NEW r \in Requests, NEW x \in Jobs(r), NEW y \in Jobs(r),
           Label(r, x) = Label(r, y), NEW S
    PROVE  /\ Cardinality(Part(r, x, S)) = Cardinality(Part(r, y, S))
           /\ {j.scenario : j \in Group(r, x)} = {j.scenario : j \in Group(r, y)}
<1>1. ASSUME NEW u \in Jobs(r), NEW v \in Jobs(r), Label(r, u) = Label(r, v),
             NEW j \in Group(r, u)
      PROVE  /\ Moved(j, v) \in Group(r, v)
             /\ Moved(j, v).scenario = j.scenario /\ Moved(j, v).trial = j.trial
             /\ Moved(Moved(j, v), u) = j
  <2>1. j \in Jobs(r) /\ Label(r, j) = Label(r, u)
    BY DEF Group
  <2>2. Moved(j, v) \in Jobs(r) /\ Label(r, Moved(j, v)) = Label(r, j)
    BY <2>1 DEF Moved, Jobs, Label
  <2>3. Moved(j, v) \in Group(r, v)
    BY <1>1, <2>1, <2>2 DEF Group, Moved
  <2>4. Moved(Moved(j, v), u) = j
    BY <2>1 DEF Group, Moved, Jobs
  <2> QED
    BY <2>3, <2>4 DEF Moved
<1> DEFINE A == Part(r, x, S)
           B == Part(r, y, S)
           f == [j \in A |-> Moved(j, y)]
<1>2. f \in [A -> B]
  BY <1>1 DEF Part
<1>3. \A j, k \in A : f[j] = f[k] => j = k
  <2> TAKE j, k \in A
  <2>1. j \in Group(r, x) /\ k \in Group(r, x)
    BY DEF Part
  <2>2. Moved(Moved(j, y), x) = j /\ Moved(Moved(k, y), x) = k
    BY <1>1, <2>1
  <2> QED
    BY <2>2
<1>4. \A k \in B : \E j \in A : f[j] = k
  <2> TAKE k \in B
  <2>1. k \in Group(r, y) /\ k.scenario \in S
    BY DEF Part
  <2>2. Moved(k, x) \in A /\ Moved(Moved(k, x), y) = k
    BY <1>1, <2>1 DEF Part
  <2> QED
    BY <2>2
<1> HIDE DEF f
<1>5. f \in Bijection(A, B)
  BY <1>2, <1>3, <1>4, Fun_IsBij
<1>6. IsFiniteSet(A)
  BY GroupsAreFinite, FS_Subset DEF Part
<1>7. Cardinality(A) = Cardinality(B)
  BY <1>5, <1>6, FS_Bijection DEF ExistsBijection
<1>8. {j.scenario : j \in Group(r, x)} = {j.scenario : j \in Group(r, y)}
  <2>1. \A j \in Group(r, x) : \E k \in Group(r, y) : k.scenario = j.scenario
    BY <1>1
  <2>2. \A j \in Group(r, y) : \E k \in Group(r, x) : k.scenario = j.scenario
    BY <1>1
  <2> QED
    BY <2>1, <2>2
<1> QED
  BY <1>7, <1>8

\* What the call has when it writes: every result, and each of its own kind.
Results(r, done) ==
    /\ DOMAIN done = Jobs(r)
    /\ \A j \in Jobs(r) : done[j] \in Outcomes(r, j)

\* The scenarios whose runs are set aside: a grSim run is not looked at for an
\* initial overlap.
SetAside(r) == IF r.backend = "grsim" THEN {} ELSE invalid

LEMMA RowsAreGroups ==
    ASSUME NEW r \in Requests, r.set # OneShot, NEW done, Results(r, done),
           NEW x \in Jobs(r)
    PROVE  LET row == Row(r, done, Key(r, x))
           IN  /\ row.key = Key(r, x)
               /\ row.runs = Cardinality(Part(r, x, Scenarios))
               /\ row.valid = Cardinality(Part(r, x, Scenarios \ SetAside(r)))
               /\ row.scenarios = {j.scenario : j \in Group(r, x)}
<1> DEFINE runs == {j \in DOMAIN done : Key(r, j) = Key(r, x)}
           valid == {j \in runs : done[j] \notin Invalid}
<1>1. runs = Group(r, x) /\ runs = Part(r, x, Scenarios)
  <2>1. \A j \in Jobs(r) : j.scenario \in Scenarios
    BY DEF Jobs
  <2> QED
    BY <2>1, KeysAreGroups DEF Results, Part, Group
<1>2. \A j \in Jobs(r) : done[j] \in Invalid <=> j.scenario \in SetAside(r)
  BY DEF Results, Outcomes, Invalid, Ungraded, SetAside
<1>3. valid = Part(r, x, Scenarios \ SetAside(r))
  BY <1>1, <1>2 DEF Part, Group, Jobs
<1> QED
  BY <1>1, <1>3 DEF Row

\* Every valid run of the built-in model has one outcome, and the older table
\* counts no more runs than have no class in the new one.
LEMMA RowsAddUp ==
    ASSUME NEW r \in Requests, r.set # OneShot, NEW done, Results(r, done),
           NEW x \in Jobs(r)
    PROVE  LET row == Row(r, done, Key(r, x))
               old == LegacyRow(r, done, Key(r, x))
           IN  /\ r.backend # "grsim" => row.completed + row.incomplete = row.valid
               /\ old.key = row.key /\ old.runs = row.runs
               /\ old.completed - row.completed \in 0 .. row.runs - (row.completed + row.incomplete)
<1> DEFINE runs == {j \in DOMAIN done : Key(r, j) = Key(r, x)}
           valid == {j \in runs : done[j] \notin Invalid}
           S == {j \in valid : done[j] \in {"S"}}
           I == {j \in valid : done[j] \in {"I"}}
           old == {j \in runs : done[j] \in {"S", "X completed", "none completed"}}
           row == Row(r, done, Key(r, x))
           legacy == LegacyRow(r, done, Key(r, x))
<1>1. /\ row.completed = Cardinality(S) /\ row.incomplete = Cardinality(I)
      /\ row.runs = Cardinality(runs) /\ row.valid = Cardinality(valid)
      /\ row.key = Key(r, x)
      /\ legacy.completed = Cardinality(old) /\ legacy.runs = Cardinality(runs)
      /\ legacy.key = Key(r, x)
  BY DEF Row, LegacyRow, Count
<1>2. /\ \A j \in runs : done[j] \in Invalid \cup Ungraded \cup {"S", "I"}
      /\ r.backend # "grsim" => \A j \in runs : done[j] \in Invalid \cup {"S", "I"}
  BY DEF Results, Outcomes
<1>3. IsFiniteSet(runs)
  <2>1. runs = Group(r, x)
    BY KeysAreGroups DEF Results
  <2> QED
    BY <2>1, GroupsAreFinite
<1>4. /\ valid \subseteq runs /\ old \subseteq runs
      /\ S \subseteq valid /\ I \subseteq valid /\ S \subseteq old /\ S \cap I = {}
  BY DEF Invalid
<1>5. IsFiniteSet(valid) /\ IsFiniteSet(old) /\ IsFiniteSet(S) /\ IsFiniteSet(I)
  BY <1>3, <1>4, FS_Subset
<1>6. r.backend # "grsim" => S \cup I = valid
  BY <1>2 DEF Invalid
<1>7. old \ S \subseteq runs \ (S \cup I) /\ S \cup I \subseteq runs
  BY <1>2 DEF Invalid, Ungraded
<1> HIDE DEF runs, valid, S, I, old, row, legacy
<1>8. /\ Cardinality(runs) \in Nat /\ Cardinality(S \cup I) \in Nat
      /\ Cardinality(S) \in Nat /\ Cardinality(I) \in Nat /\ Cardinality(old) \in Nat
      /\ IsFiniteSet(S \cup I)
  BY <1>3, <1>5, FS_CardinalityType, FS_Union
<1>9. Cardinality(S \cup I) = Cardinality(S) + Cardinality(I)
  <2>1. Cardinality(S \cup I) = Cardinality(S) + Cardinality(I) - Cardinality(S \cap I)
    BY <1>5, FS_Union
  <2>2. Cardinality(S \cap I) = 0
    BY <1>4, FS_EmptySet
  <2> QED
    BY <1>8, <2>1, <2>2
<1>10. /\ Cardinality(old \ S) = Cardinality(old) - Cardinality(S)
       /\ Cardinality(runs \ (S \cup I)) = Cardinality(runs) - Cardinality(S \cup I)
  <2> DEFINE graded == S \cup I
  <2>1. old \cap S = S /\ runs \cap graded = graded
    BY <1>4, <1>7
  <2>2. Cardinality(old \ S) = Cardinality(old) - Cardinality(old \cap S)
    BY <1>5, FS_Difference
  <2> HIDE DEF graded
  <2>3. Cardinality(runs \ graded) = Cardinality(runs) - Cardinality(runs \cap graded)
    BY <1>3, FS_Difference
  <2> QED
    BY <2>1, <2>2, <2>3 DEF graded
<1>11. Cardinality(old \ S) <= Cardinality(runs \ (S \cup I)) /\ Cardinality(old \ S) \in Nat
  <2>1. IsFiniteSet(runs \ (S \cup I)) /\ IsFiniteSet(old \ S)
    BY <1>3, <1>5, FS_Difference
  <2> QED
    BY <1>7, <2>1, FS_Subset, FS_CardinalityType
<1>12. Cardinality(old) - Cardinality(S) \in 0 .. Cardinality(runs) - (Cardinality(S) + Cardinality(I))
  BY <1>8, <1>9, <1>10, <1>11
<1>13. r.backend # "grsim" => Cardinality(valid) = Cardinality(S) + Cardinality(I)
  BY <1>6, <1>9
<1> QED
  BY <1>1, <1>12, <1>13 DEF row, legacy

LEMMA FirstIsIn ==
    ASSUME NEW s \in Seq(Int), s # <<>>
    PROVE  s[1] \in ToSet(s)
<1>1. 1 \in DOMAIN s
  BY EmptySeq, LenProperties
<1> QED
  BY <1>1 DEF ToSet

\* Every policy that was asked for has runs, and no other has.
LEMMA PoliciesAreRun ==
    ASSUME NEW r \in Requests, r.set = NoSet, Runnable(r)
    PROVE  r.policies = {j.arm[1] : j \in Jobs(r)}
<1>1. r.set # OneShot /\ r.set \notin DOMAIN ResultSets
  BY RequestAssumption DEF OneShot, NoSet
<1>2. ASSUME NEW a \in Arms(r)
      PROVE  /\ a[1] \in r.policies
             /\ \E j \in Jobs(r) : j.arm = a
  <2>1. a[1] \in r.policies
    <3>1. CASE r.backend = "grsim"
      <4>1. a = <<"once", 0, r.periods[1]>>
        BY <1>1, <3>1 DEF Arms
      <4>2. r.policies = {"once"}
        BY <3>1 DEF Runnable
      <4> QED
        BY <4>1, <4>2
    <3>2. CASE r.backend # "grsim"
      <4>1. a \in r.policies \X r.horizons \X ToSet(r.periods)
        BY <1>1, <1>2, <3>2 DEF Arms, Grid
      <4> QED
        BY <4>1
    <3> QED
      BY <3>1, <3>2
  <2>2. PICK s \in Scenarios, p \in Planners : TRUE
    BY RequestAssumption
  <2>3. r.clearances[1] \in Clearances(r) /\ 1 \in 1..Trials(r)
    <3>1. r.clearances[1] \in ToSet(r.clearances)
      BY FirstIsIn, RequestAssumption
    <3>2. r.clearances[1] \in Clearances(r)
      BY <3>1 DEF Clearances
    <3>3. r.trials \in Nat \ {0}
      BY RequestAssumption
    <3>4. 1 \in 1..Trials(r)
      <4>1. Trials(r) = r.trials
        BY <1>1 DEF Trials
      <4>2. 1 \in 1..r.trials
        BY <3>3
      <4> QED
        BY <4>1, <4>2
    <3> QED
      BY <3>2, <3>4
  <2>4. [scenario |-> s, planner |-> p, arm |-> a, clearance |-> r.clearances[1],
         trial |-> 1] \in Jobs(r)
    BY <2>3 DEF Jobs
  <2> QED
    BY <2>1, <2>4
<1>3. ASSUME NEW policy \in r.policies
      PROVE  \E a \in Arms(r) : a[1] = policy
  <2>1. CASE r.backend = "grsim"
    BY <1>1, <2>1 DEF Arms, Runnable
  <2>2. CASE r.backend # "grsim"
    <3>1. PICK h \in r.horizons : 0 \in r.horizons => h = 0
      BY RequestAssumption
    <3>2. r.periods[1] \in ToSet(r.periods)
      BY FirstIsIn, RequestAssumption
    <3>3. <<policy, h, r.periods[1]>> \in Grid(r)
      <4> DEFINE a == <<policy, h, r.periods[1]>>
      <4>1. a \in r.policies \X r.horizons \X ToSet(r.periods)
        BY <3>1, <3>2
      <4>2. a[1] = policy /\ a[2] = h /\ a[3] = r.periods[1]
        OBVIOUS
      <4>3. ~(a[2] > 0 /\ 0 \in r.horizons)
        <5>1. ~(h > 0 /\ 0 \in r.horizons)
          <6>1. ~(0 > 0)
            OBVIOUS
          <6> QED
            BY <3>1, <6>1
        <5> QED
          BY <4>2, <5>1
      <4> HIDE DEF a
      <4>4. a \in Grid(r)
        BY <4>1, <4>2, <4>3 DEF Grid
      <4> QED
        BY <4>4 DEF a
    <3> QED
      BY <1>1, <2>2, <3>3 DEF Arms
  <2> QED
    BY <2>1, <2>2
<1>4. \A j \in Jobs(r) : j.arm \in Arms(r)
  BY DEF Jobs
<1>5. \A j \in Jobs(r) : j.arm[1] \in r.policies
  BY <1>2, <1>4
<1>6. \A policy \in r.policies : \E j \in Jobs(r) : j.arm[1] = policy
  BY <1>2, <1>3
<1> QED
  BY <1>5, <1>6

\* A one-shot call: the rows of two planners.
LEMMA OneShotRowsMatch ==
    ASSUME NEW r \in Requests, r.set = OneShot, r.bank, NEW done, Results(r, done),
           NEW x \in Jobs(r), NEW y \in Jobs(r)
    PROVE  /\ OneShotRow(done, x.planner).scenarios = OneShotRow(done, y.planner).scenarios
           /\ OneShotRow(done, x.planner).calls = OneShotRow(done, y.planner).calls
<1>1. ASSUME NEW u \in Jobs(r)
      PROVE  /\ {j \in DOMAIN done : j.planner = u.planner} = Group(r, u)
             /\ Group(r, u) = Part(r, u, Scenarios)
  <2>1. \A j \in Jobs(r) : /\ j.arm = u.arm /\ j.clearance = u.clearance
                           /\ Label(r, j) = Label(r, u) /\ j.scenario \in Scenarios
    BY DEF Jobs, Arms, Clearances, Label
  <2> QED
    BY <2>1 DEF Results, Group, Part
<1>2. Label(r, x) = Label(r, y)
  BY DEF Label
<1>3. \A u \in Jobs(r) : /\ OneShotRow(done, u.planner).calls = Cardinality(Part(r, u, Scenarios))
                         /\ OneShotRow(done, u.planner).scenarios = {j.scenario : j \in Group(r, u)}
  BY <1>1 DEF OneShotRow
<1> QED
  <2>1. /\ Cardinality(Part(r, x, Scenarios)) = Cardinality(Part(r, y, Scenarios))
        /\ {j.scenario : j \in Group(r, x)} = {j.scenario : j \in Group(r, y)}
    BY <1>2, GroupsMatch
  <2> QED
    BY <1>3, <2>1

\* What a running call has of its results.
ResultInv ==
    /\ DOMAIN call = Calls
    /\ \A b \in Calls :
          LET c == call[b]
              r == c.request
          IN  /\ DOMAIN c = Fields
              /\ c.phase \in {"idle", "checked", "running", "ended", "failed"}
              /\ Active(b) => r \in Requests /\ Accepted(r)
              /\ c.phase \in {"idle", "checked"} => c.at = 0 /\ c.done = <<>>
              /\ c.phase = "running" =>
                    /\ r.set = OneShot \/ Runnable(r)
                    /\ c.at \in Nat
                    /\ DOMAIN c.done \subseteq Jobs(r)
                    /\ \A j \in DOMAIN c.done : c.done[j] \in Outcomes(r, j)
                    /\ c.at > 0 => DOMAIN c.done = Jobs(r)

LEMMA StepsKeepResults ==
    ASSUME ResultInv, [Next]_vars
    PROVE  ResultInv'
<1> DEFINE Good(b) ==
        LET c == call[b]
            r == c.request
        IN  /\ DOMAIN c = Fields
            /\ c.phase \in {"idle", "checked", "running", "ended", "failed"}
            /\ Active(b) => r \in Requests /\ Accepted(r)
            /\ c.phase \in {"idle", "checked"} => c.at = 0 /\ c.done = <<>>
            /\ c.phase = "running" =>
                  /\ r.set = OneShot \/ Runnable(r)
                  /\ c.at \in Nat
                  /\ DOMAIN c.done \subseteq Jobs(r)
                  /\ \A j \in DOMAIN c.done : c.done[j] \in Outcomes(r, j)
                  /\ c.at > 0 => DOMAIN c.done = Jobs(r)
<1>1. /\ DOMAIN call = Calls
      /\ \A b \in Calls : Good(b)
  BY DEF ResultInv
<1>2. UNCHANGED invalid
  BY DEF Next, Enter, Prepare, Finish, Write, Fail, vars
<1>3. ASSUME NEW b \in Calls, DOMAIN call' = Calls,
             \A o \in Calls \ {b} : call'[o] = call[o],
             Good(b)'
      PROVE  ResultInv'
  <2>1. \A o \in Calls \ {b} : Good(o)'
    BY <1>1, <1>2, <1>3 DEF Active, Outcomes
  <2> QED
    BY <1>3, <2>1 DEF ResultInv
<1>4. CASE UNCHANGED vars
  BY <1>1, <1>4 DEF vars, ResultInv, Active, Outcomes
<1>5. ASSUME NEW b \in Calls, NEW r \in Requests, NEW f \in Folders, Enter(b, r, f)
      PROVE  ResultInv'
  <2>1. /\ DOMAIN call' = Calls
        /\ \A o \in Calls \ {b} : call'[o] = call[o]
        /\ DOMAIN call'[b] = Fields
        /\ call'[b].request = r /\ call'[b].at = 0 /\ call'[b].done = <<>>
        /\ call'[b].phase = IF Accepted(r) /\ Empty(f) THEN "checked" ELSE "failed"
    BY <1>1, <1>5 DEF Enter, Fields
  <2>2. Good(b)'
    BY <2>1 DEF Active
  <2> QED
    BY <1>3, <2>1, <2>2
<1>6. ASSUME NEW b \in Calls, Prepare(b)
      PROVE  ResultInv'
  <2> DEFINE r == call[b].request
             p == IF r.set = OneShot \/ Runnable(r) THEN "running" ELSE "failed"
  <2>1. call[b].phase = "checked" /\ Active(b) /\ call[b].at = 0 /\ call[b].done = <<>>
    BY <1>1, <1>6 DEF Prepare, Active
  <2>2. /\ DOMAIN call' = Calls
        /\ \A o \in Calls \ {b} : call'[o] = call[o]
        /\ DOMAIN call'[b] = Fields
        /\ call'[b].request = r /\ call'[b].at = 0 /\ call'[b].done = <<>>
        /\ call'[b].phase = p
    BY <1>1, <1>6, <2>1 DEF Prepare, Goes, Fields
  <2>3. r \in Requests /\ Accepted(r)
    BY <1>1, <2>1
  <2>4. DOMAIN call'[b].done = {}
    BY <2>2
  <2>5. Good(b)'
    BY <2>2, <2>3, <2>4
  <2> QED
    BY <1>3, <2>2, <2>5
<1>7. ASSUME NEW b \in Calls, Finish(b)
      PROVE  ResultInv'
  <2> DEFINE c == call[b]
             r == c.request
  <2>1. PICK j \in Jobs(r) \ DOMAIN c.done : \E o \in Outcomes(r, j) :
          call' = [call EXCEPT ![b].done =
                      [i \in DOMAIN c.done \cup {j} |-> IF i = j THEN o ELSE c.done[i]]]
    BY <1>7 DEF Finish
  <2>2. PICK o \in Outcomes(r, j) :
          call' = [call EXCEPT ![b].done =
                      [i \in DOMAIN c.done \cup {j} |-> IF i = j THEN o ELSE c.done[i]]]
    BY <2>1
  <2>3. c.phase = "running" /\ Active(b)
    BY <1>7 DEF Finish, Active
  <2>4. /\ DOMAIN call' = Calls
        /\ \A i \in Calls \ {b} : call'[i] = call[i]
        /\ DOMAIN call'[b] = Fields
        /\ call'[b].request = r /\ call'[b].at = c.at /\ call'[b].phase = "running"
        /\ call'[b].done = [i \in DOMAIN c.done \cup {j} |-> IF i = j THEN o ELSE c.done[i]]
    BY <1>1, <2>2, <2>3 DEF Fields
  <2>5. /\ DOMAIN call'[b].done = DOMAIN c.done \cup {j}
        /\ \A i \in DOMAIN call'[b].done : call'[b].done[i] \in Outcomes(r, i)
    BY <1>1, <2>3, <2>4
  <2>6. Good(b)'
    BY <1>1, <1>2, <2>1, <2>3, <2>4, <2>5 DEF Outcomes
  <2> QED
    BY <1>3, <2>4, <2>6
<1>8. ASSUME NEW b \in Calls, Write(b)
      PROVE  ResultInv'
  <2> DEFINE c == call[b]
             last == c.at + 1 = Len(Files(c.request))
  <2>1. c.phase = "running" /\ Active(b) /\ DOMAIN c.done = Jobs(c.request)
    BY <1>8 DEF Write, Active
  <2>2. /\ DOMAIN call' = Calls
        /\ \A i \in Calls \ {b} : call'[i] = call[i]
        /\ DOMAIN call'[b] = Fields
        /\ call'[b].request = c.request /\ call'[b].at = c.at + 1
        /\ call'[b].phase = IF last THEN "ended" ELSE "running"
        /\ ~last => call'[b].done = c.done
    BY <1>1, <1>8, <2>1 DEF Fields, Write
  <2>3. Good(b)'
    BY <1>1, <1>2, <2>1, <2>2 DEF Active, Outcomes
  <2> QED
    BY <1>3, <2>2, <2>3
<1>9. ASSUME NEW b \in Calls, Fail(b)
      PROVE  ResultInv'
  <2>1. /\ DOMAIN call' = Calls
        /\ \A i \in Calls \ {b} : call'[i] = call[i]
        /\ DOMAIN call'[b] = Fields /\ call'[b].phase = "failed"
    BY <1>1, <1>9 DEF Fail, Goes, Fields
  <2>2. Good(b)'
    BY <2>1 DEF Active
  <2> QED
    BY <1>3, <2>1, <2>2
<1> QED
  BY <1>4, <1>5, <1>6, <1>7, <1>8, <1>9 DEF Next

\* The tables compare like with like: of one label, the rows of all arms and
\* planners count the same scenarios and the same runs, with the same runs set
\* aside; every valid run of the built-in model has one outcome, the older table
\* counts beyond the new one only runs without a class, every policy has its rows.
THEOREM TablesAreMatched == Spec => []RowsAreMatched
<1>1. Init => ResultInv
  <2> SUFFICES ASSUME Init PROVE ResultInv
    OBVIOUS
  <2>1. call = [b \in Calls |-> Idle]
    BY DEF Init
  <2> QED
    BY <2>1 DEF ResultInv, Idle, Active, Fields
<1>2. ResultInv => RowsAreMatched
  <2> SUFFICES ASSUME ResultInv, NEW b \in Calls, Active(b), call[b].at > 0
               PROVE  LET r == call[b].request
                          done == call[b].done
                      IN  IF r.set = OneShot
                          THEN \A x, y \in OneShotRows(done) :
                                  x.scenarios = y.scenarios /\ x.calls = y.calls
                          ELSE /\ \A x, y \in Rows(r, done) : x.key.label = y.key.label =>
                                      x.runs = y.runs /\ x.valid = y.valid /\ x.scenarios = y.scenarios
                               /\ \A x \in Rows(r, done) :
                                      /\ r.backend # "grsim" => x.completed + x.incomplete = x.valid
                                      /\ \E y \in LegacyRows(r, done) :
                                            /\ y.key = x.key /\ y.runs = x.runs
                                            /\ y.completed - x.completed
                                                  \in 0 .. x.runs - (x.completed + x.incomplete)
                               /\ r.set = NoSet => r.policies = {x.key.policy : x \in Rows(r, done)}
    BY DEF RowsAreMatched
  <2> DEFINE r == call[b].request
             done == call[b].done
  <2>1. /\ call[b].phase = "running" /\ r \in Requests /\ Accepted(r)
        /\ r.set = OneShot \/ Runnable(r)
        /\ Results(r, done)
    BY DEF ResultInv, Active, Results
  <2> HIDE DEF r, done
  <2>2. CASE r.set = OneShot
    <3>1. r.bank
      BY <2>1, <2>2 DEF Accepted, OneShot, NoSet
    <3>2. \A row \in OneShotRows(done) : \E j \in Jobs(r) : row = OneShotRow(done, j.planner)
      BY <2>1 DEF OneShotRows, Results
    <3>3. \A x, y \in OneShotRows(done) : x.scenarios = y.scenarios /\ x.calls = y.calls
      BY <2>1, <2>2, <3>1, <3>2, OneShotRowsMatch
    <3> QED
      BY <2>2, <3>3 DEF r, done
  <2>3. CASE r.set # OneShot
    <3>1. \A row \in Rows(r, done) : \E j \in Jobs(r) : row = Row(r, done, Key(r, j))
      BY <2>1 DEF Rows, Results
    <3>2. ASSUME NEW x \in Rows(r, done), NEW y \in Rows(r, done), x.key.label = y.key.label
          PROVE  x.runs = y.runs /\ x.valid = y.valid /\ x.scenarios = y.scenarios
      <4>1. PICK i \in Jobs(r) : x = Row(r, done, Key(r, i))
        BY <3>1
      <4>2. PICK j \in Jobs(r) : y = Row(r, done, Key(r, j))
        BY <3>1
      <4>3. x.key = Key(r, i) /\ y.key = Key(r, j)
        BY <2>1, <2>3, <4>1, <4>2, RowsAreGroups
      <4>4. Label(r, i) = Label(r, j)
        BY <3>2, <4>3 DEF Key
      <4>5. /\ x.runs = Cardinality(Part(r, i, Scenarios))
            /\ x.valid = Cardinality(Part(r, i, Scenarios \ SetAside(r)))
            /\ x.scenarios = {k.scenario : k \in Group(r, i)}
        BY <2>1, <2>3, <4>1, RowsAreGroups
      <4>6. /\ y.runs = Cardinality(Part(r, j, Scenarios))
            /\ y.valid = Cardinality(Part(r, j, Scenarios \ SetAside(r)))
            /\ y.scenarios = {k.scenario : k \in Group(r, j)}
        BY <2>1, <2>3, <4>2, RowsAreGroups
      <4>7. /\ Cardinality(Part(r, i, Scenarios)) = Cardinality(Part(r, j, Scenarios))
            /\ Cardinality(Part(r, i, Scenarios \ SetAside(r))) = Cardinality(Part(r, j, Scenarios \ SetAside(r)))
            /\ {k.scenario : k \in Group(r, i)} = {k.scenario : k \in Group(r, j)}
        BY <2>1, <4>4, GroupsMatch
      <4> QED
        BY <4>5, <4>6, <4>7
    <3>3. ASSUME NEW x \in Rows(r, done)
          PROVE  /\ r.backend # "grsim" => x.completed + x.incomplete = x.valid
                 /\ \E y \in LegacyRows(r, done) :
                       /\ y.key = x.key /\ y.runs = x.runs
                       /\ y.completed - x.completed
                                                  \in 0 .. x.runs - (x.completed + x.incomplete)
      <4>1. PICK i \in Jobs(r) : x = Row(r, done, Key(r, i))
        BY <3>1
      <4>2. LegacyRow(r, done, Key(r, i)) \in LegacyRows(r, done)
        BY <2>1 DEF LegacyRows, Results
      <4> QED
        BY <2>1, <2>3, <4>1, <4>2, RowsAddUp
    <3>4. ASSUME r.set = NoSet
          PROVE  r.policies = {x.key.policy : x \in Rows(r, done)}
      <4>1. r.policies = {j.arm[1] : j \in Jobs(r)}
        BY <2>1, <2>3, <3>4, PoliciesAreRun
      <4>2. \A j \in Jobs(r) : /\ Row(r, done, Key(r, j)) \in Rows(r, done)
                               /\ Row(r, done, Key(r, j)).key.policy = j.arm[1]
        BY <2>1 DEF Rows, Results, Row, Key
      <4> QED
        BY <3>1, <4>1, <4>2
    <3> QED
      BY <2>3, <3>2, <3>3, <3>4 DEF r, done
  <2> QED
    BY <2>2, <2>3
<1> QED
  BY <1>1, <1>2, StepsKeepResults, PTL DEF Spec

================================================================================
