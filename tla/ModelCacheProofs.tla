--------------------------- MODULE ModelCacheProofs ---------------------------
(***************************************************************************)
(* Theorems about ModelCache, for any number of threads, processes and     *)
(* artifacts, and artifacts of any length.                                 *)
(***************************************************************************)
EXTENDS ModelCache, TLAPS

Labels == {"idle", "lock", "wait"} \cup Downloading \cup Loading

(* Only the end of a check is beyond the last artifact. *)
WhereInv ==
    /\ pc \in [Workers -> Labels]
    /\ at \in [Workers -> 1..(N + 1)]
    /\ \A w \in Workers : pc[w] # "check" => at[w] \in Artifacts

DiskInv ==
    /\ files \in [Artifacts -> Content \cup {NoFile}]
    /\ part \in [Artifacts -> Content \cup {NoFile}]
    /\ origin \in {"pinned", "other"}
    /\ doomed \in SUBSET Candidates
    /\ calm \in BOOLEAN

BodyInv == body \in [Workers -> Body]

(* What has been read was read whole. *)
MemoryInv ==
    /\ memory \in [Workers -> [Artifacts -> Content \cup {NoFile}]]
    /\ \A w \in Workers : pc[w] = "read" =>
          \A a \in Artifacts : a < at[w] => memory[w][a] # NoFile
    /\ slot \in [Artifacts -> Content] \cup {NoModel}
    /\ turn \in Threads \cup {NoThread}

TypeInv == WhereInv /\ DiskInv /\ BodyInv /\ MemoryInv

(* Who downloads has the cache to itself, but for gc. *)
LockInv ==
    \A v, w \in Workers : v # w /\ pc[v] \in Downloading => pc[w] \notin Downloading \cup Loading

(* A download that was verified is as it was, or gc has taken it. *)
PartInv ==
    \A w \in Workers : pc[w] \in {"replace", "install"} => part[at[w]] \in {NoFile, Pinned}

(* So are the files a loading thread has verified, and it has read nothing *)
(* else.                                                                   *)
VerifiedInv ==
    \A w \in Workers :
        /\ pc[w] = "verify" => \A a \in Artifacts : a < at[w] => files[a] \in {NoFile, Pinned}
        /\ pc[w] = "read" =>
              /\ \A a \in Artifacts : files[a] \in {NoFile, Pinned}
              /\ \A a \in Artifacts : a < at[w] => memory[w][a] = Pinned

CacheInv == TypeInv /\ LockInv /\ PartInv /\ VerifiedInv /\ LoadedIsPinned

-----------------------------------------------------------------------------
(* Types.                                                                  *)

LEMMA First == 1 \in Artifacts /\ 1 \in 1..(N + 1) /\ N \in Artifacts
  BY CountsAreNatural DEF Artifacts

LEMMA Contents == Pinned \in Content /\ [size |-> Size, good |-> FALSE] \in Content
  BY CountsAreNatural DEF Content, Pinned

LEMMA Bodies == NoBody \in Body
  BY CountsAreNatural DEF NoBody, Body

LEMMA WhereStep ==
    ASSUME WhereInv, [Next]_vars
    PROVE  WhereInv'
  <1> USE CountsAreNatural, First
  <1>0. CASE UNCHANGED vars
    BY <1>0 DEF vars, disk, WhereInv
  <1>1. ASSUME NEW w \in Workers, TakeTurn(w) PROVE WhereInv'
    BY <1>1
       DEF TakeTurn, Goto, WhereInv, Labels, Downloading, Writing, Loading, Artifacts
  <1>2. ASSUME NEW w \in Workers, StartTool(w) PROVE WhereInv'
    BY <1>2
       DEF StartTool, Goto, WhereInv, Labels, Downloading, Writing, Loading, Artifacts
  <1>3. ASSUME NEW w \in Workers, LockForDownload(w) PROVE WhereInv'
    BY <1>3
       DEF LockForDownload, Goto, WhereInv, Labels, Downloading, Writing, Loading,
           Artifacts
  <1>4. ASSUME NEW w \in Workers, CheckFile(w) PROVE WhereInv'
    BY <1>4
       DEF CheckFile, Goto, WhereInv, Labels, Downloading, Writing, Loading, Artifacts
  <1>5. ASSUME NEW w \in Workers, EndAcquire(w) PROVE WhereInv'
    BY <1>5
       DEF EndAcquire, Goto, WhereInv, Labels, Downloading, Writing, Loading,
           Artifacts
  <1>6. ASSUME NEW w \in Workers, Request(w) PROVE WhereInv'
    BY <1>6
       DEF Request, Goto, WhereInv, Labels, Downloading, Writing, Loading, Artifacts
  <1>7. ASSUME NEW w \in Workers, RequestFails(w) PROVE WhereInv'
    BY <1>7
       DEF RequestFails, Fail, Return, Goto, WhereInv, Labels, Downloading, Writing,
           Loading, Artifacts
  <1>8. ASSUME NEW w \in Workers, OpenPart(w) PROVE WhereInv'
    BY <1>8
       DEF OpenPart, Goto, WhereInv, Labels, Downloading, Writing, Loading, Artifacts
  <1>9. ASSUME NEW w \in Workers, Copy(w) PROVE WhereInv'
    BY <1>9 DEF Copy, Goto, WhereInv, Labels, Downloading, Writing, Loading, Artifacts
  <1>10. ASSUME NEW w \in Workers, CopyFails(w) PROVE WhereInv'
    BY <1>10
       DEF CopyFails, Fail, Return, Goto, WhereInv, Labels, Downloading, Writing,
           Loading, Artifacts
  <1>11. ASSUME NEW w \in Workers, Synced(w) PROVE WhereInv'
    BY <1>11
       DEF Synced, Goto, WhereInv, Labels, Downloading, Writing, Loading, Artifacts
  <1>12. ASSUME NEW w \in Workers, VerifyPart(w) PROVE WhereInv'
    BY <1>12
       DEF VerifyPart, Goto, WhereInv, Labels, Downloading, Writing, Loading,
           Artifacts
  <1>13. ASSUME NEW w \in Workers, RejectPart(w) PROVE WhereInv'
    BY <1>13
       DEF RejectPart, Fail, Return, Goto, WhereInv, Labels, Downloading, Writing,
           Loading, Artifacts
  <1>14. ASSUME NEW w \in Workers, RemoveCorrupt(w) PROVE WhereInv'
    BY <1>14
       DEF RemoveCorrupt, Goto, WhereInv, Labels, Downloading, Writing, Loading,
           Artifacts
  <1>15. ASSUME NEW w \in Workers, Install(w) PROVE WhereInv'
    BY <1>15
       DEF Install, Goto, WhereInv, Labels, Downloading, Writing, Loading, Artifacts
  <1>16. ASSUME NEW w \in Workers, InstallFails(w) PROVE WhereInv'
    BY <1>16
       DEF InstallFails, Fail, Return, Goto, WhereInv, Labels, Downloading, Writing,
           Loading, Artifacts
  <1>17. ASSUME NEW w \in Workers, LockForLoad(w) PROVE WhereInv'
    BY <1>17
       DEF LockForLoad, Goto, WhereInv, Labels, Downloading, Writing, Loading,
           Artifacts
  <1>18. ASSUME NEW w \in Workers, VerifyFile(w) PROVE WhereInv'
    BY <1>18
       DEF VerifyFile, Goto, WhereInv, Labels, Downloading, Writing, Loading,
           Artifacts
  <1>19. ASSUME NEW w \in Workers, VerifyFails(w) PROVE WhereInv'
    BY <1>19
       DEF VerifyFails, Fail, Return, Goto, WhereInv, Labels, Downloading, Writing,
           Loading, Artifacts
  <1>20. ASSUME NEW w \in Workers, ReadFile(w) PROVE WhereInv'
    BY <1>20
       DEF ReadFile, Goto, WhereInv, Labels, Downloading, Writing, Loading, Artifacts
  <1>21. ASSUME NEW w \in Workers, ReadFails(w) PROVE WhereInv'
    BY <1>21
       DEF ReadFails, Fail, Return, Goto, WhereInv, Labels, Downloading, Writing,
           Loading, Artifacts
  <1>22. ASSUME NEW w \in Workers, KeepModel(w) PROVE WhereInv'
    BY <1>22
       DEF KeepModel, Return, Goto, WhereInv, Labels, Downloading, Writing, Loading,
           Artifacts
  <1>23. ASSUME NEW w \in Workers, ToolDies(w) PROVE WhereInv'
    BY <1>23
       DEF ToolDies, Fail, Return, Goto, WhereInv, Labels, Downloading, Writing,
           Loading, Artifacts
  <1>24. ASSUME GcList PROVE WhereInv'
    BY <1>24 DEF GcList, WhereInv, Labels, Downloading, Writing, Loading, Artifacts
  <1>25. ASSUME GcRemove PROVE WhereInv'
    BY <1>25 DEF GcRemove, WhereInv, Labels, Downloading, Writing, Loading, Artifacts
  <1>26. ASSUME OriginChanges PROVE WhereInv'
    BY <1>26
       DEF OriginChanges, WhereInv, Labels, Downloading, Writing, Loading, Artifacts
  <1>27. ASSUME ServerDies PROVE WhereInv'
    BY <1>27 DEF ServerDies, WhereInv, Labels, Downloading, Writing, Loading, Artifacts
  <1>28. ASSUME CalmDown PROVE WhereInv'
    BY <1>28 DEF CalmDown, WhereInv, Labels, Downloading, Writing, Loading, Artifacts
  <1> QED
    BY <1>0, <1>1, <1>2, <1>3, <1>4, <1>5, <1>6, <1>7, <1>8, <1>9, <1>10, <1>11, <1>12,
       <1>13, <1>14, <1>15, <1>16, <1>17, <1>18, <1>19, <1>20, <1>21, <1>22, <1>23,
       <1>24, <1>25, <1>26, <1>27, <1>28
       DEF Next, Download, Load

LEMMA DiskStep ==
    ASSUME WhereInv, DiskInv, BodyInv, [Next]_vars
    PROVE  DiskInv'
  <1> USE CountsAreNatural, NoFileIsNoContent
  <1>0. CASE UNCHANGED vars
    BY <1>0 DEF vars, disk, DiskInv
  <1>1. ASSUME NEW w \in Workers, TakeTurn(w) PROVE DiskInv'
    BY <1>1
       DEF TakeTurn, Goto, WhereInv, DiskInv, BodyInv, disk, Content, Pinned, Empty,
           Body, Candidates
  <1>2. ASSUME NEW w \in Workers, StartTool(w) PROVE DiskInv'
    BY <1>2
       DEF StartTool, Goto, WhereInv, DiskInv, BodyInv, disk, Content, Pinned, Empty,
           Body, Candidates
  <1>3. ASSUME NEW w \in Workers, LockForDownload(w) PROVE DiskInv'
    BY <1>3
       DEF LockForDownload, Goto, WhereInv, DiskInv, BodyInv, disk, Content, Pinned,
           Empty, Body, Candidates
  <1>4. ASSUME NEW w \in Workers, CheckFile(w) PROVE DiskInv'
    BY <1>4
       DEF CheckFile, Goto, WhereInv, DiskInv, BodyInv, disk, Content, Pinned, Empty,
           Body, Candidates
  <1>5. ASSUME NEW w \in Workers, EndAcquire(w) PROVE DiskInv'
    BY <1>5
       DEF EndAcquire, Goto, WhereInv, DiskInv, BodyInv, disk, Content, Pinned, Empty,
           Body, Candidates
  <1>6. ASSUME NEW w \in Workers, Request(w) PROVE DiskInv'
    BY <1>6
       DEF Request, Goto, WhereInv, DiskInv, BodyInv, disk, Content, Pinned, Empty,
           Body, Candidates
  <1>7. ASSUME NEW w \in Workers, RequestFails(w) PROVE DiskInv'
    BY <1>7
       DEF RequestFails, Fail, Return, Goto, WhereInv, DiskInv, BodyInv, disk, Content,
           Pinned, Empty, Body, Candidates
  <1>8. ASSUME NEW w \in Workers, OpenPart(w) PROVE DiskInv'
    BY <1>8
       DEF OpenPart, Goto, WhereInv, DiskInv, BodyInv, disk, Content, Pinned, Empty,
           Body, Candidates
  <1>9. ASSUME NEW w \in Workers, Copy(w) PROVE DiskInv'
    <2>1. /\ at[w] \in Artifacts /\ body[w].good \in BOOLEAN
          /\ UNCHANGED <<files, origin, doomed, calm>>
      BY <1>9 DEF Copy, WhereInv, BodyInv, Body
    <2>2. CASE part[at[w]] = NoFile \/ part[at[w]].size = Size
      <3>1. part' = part
        BY <1>9, <2>1, <2>2 DEF Copy, DiskInv
      <3> QED
        BY <2>1, <3>1 DEF DiskInv
    <2>3. CASE ~ (part[at[w]] = NoFile \/ part[at[w]].size = Size)
      <3> DEFINE r == [size |-> part[at[w]].size + 1, good |-> part[at[w]].good /\ body[w].good]
      <3>1. part' = [part EXCEPT ![at[w]] = r]
        BY <1>9, <2>1, <2>3 DEF Copy, DiskInv
      <3>2. part[at[w]] \in Content
        BY <2>1, <2>3 DEF DiskInv
      <3>3. part[at[w]].size + 1 \in 0..Size /\ part[at[w]].good \in BOOLEAN
        BY <2>3, <3>2 DEF Content
      <3>4. r \in Content
        BY <2>1, <3>3 DEF Content
      <3> HIDE DEF r
      <3> QED
        BY <2>1, <3>1, <3>4 DEF DiskInv
    <2> QED
      BY <2>2, <2>3
  <1>10. ASSUME NEW w \in Workers, CopyFails(w) PROVE DiskInv'
    BY <1>10
       DEF CopyFails, Fail, Return, Goto, WhereInv, DiskInv, BodyInv, disk, Content,
           Pinned, Empty, Body, Candidates
  <1>11. ASSUME NEW w \in Workers, Synced(w) PROVE DiskInv'
    BY <1>11
       DEF Synced, Goto, WhereInv, DiskInv, BodyInv, disk, Content, Pinned, Empty,
           Body, Candidates
  <1>12. ASSUME NEW w \in Workers, VerifyPart(w) PROVE DiskInv'
    BY <1>12
       DEF VerifyPart, Goto, WhereInv, DiskInv, BodyInv, disk, Content, Pinned, Empty,
           Body, Candidates
  <1>13. ASSUME NEW w \in Workers, RejectPart(w) PROVE DiskInv'
    BY <1>13
       DEF RejectPart, Fail, Return, Goto, WhereInv, DiskInv, BodyInv, disk, Content,
           Pinned, Empty, Body, Candidates
  <1>14. ASSUME NEW w \in Workers, RemoveCorrupt(w) PROVE DiskInv'
    BY <1>14
       DEF RemoveCorrupt, Goto, WhereInv, DiskInv, BodyInv, disk, Content, Pinned,
           Empty, Body, Candidates
  <1>15. ASSUME NEW w \in Workers, Install(w) PROVE DiskInv'
    BY <1>15
       DEF Install, Goto, WhereInv, DiskInv, BodyInv, disk, Content, Pinned, Empty,
           Body, Candidates
  <1>16. ASSUME NEW w \in Workers, InstallFails(w) PROVE DiskInv'
    BY <1>16
       DEF InstallFails, Fail, Return, Goto, WhereInv, DiskInv, BodyInv, disk, Content,
           Pinned, Empty, Body, Candidates
  <1>17. ASSUME NEW w \in Workers, LockForLoad(w) PROVE DiskInv'
    BY <1>17
       DEF LockForLoad, Goto, WhereInv, DiskInv, BodyInv, disk, Content, Pinned, Empty,
           Body, Candidates
  <1>18. ASSUME NEW w \in Workers, VerifyFile(w) PROVE DiskInv'
    BY <1>18
       DEF VerifyFile, Goto, WhereInv, DiskInv, BodyInv, disk, Content, Pinned, Empty,
           Body, Candidates
  <1>19. ASSUME NEW w \in Workers, VerifyFails(w) PROVE DiskInv'
    BY <1>19
       DEF VerifyFails, Fail, Return, Goto, WhereInv, DiskInv, BodyInv, disk, Content,
           Pinned, Empty, Body, Candidates
  <1>20. ASSUME NEW w \in Workers, ReadFile(w) PROVE DiskInv'
    BY <1>20
       DEF ReadFile, Goto, WhereInv, DiskInv, BodyInv, disk, Content, Pinned, Empty,
           Body, Candidates
  <1>21. ASSUME NEW w \in Workers, ReadFails(w) PROVE DiskInv'
    BY <1>21
       DEF ReadFails, Fail, Return, Goto, WhereInv, DiskInv, BodyInv, disk, Content,
           Pinned, Empty, Body, Candidates
  <1>22. ASSUME NEW w \in Workers, KeepModel(w) PROVE DiskInv'
    BY <1>22
       DEF KeepModel, Return, Goto, WhereInv, DiskInv, BodyInv, disk, Content, Pinned,
           Empty, Body, Candidates
  <1>23. ASSUME NEW w \in Workers, ToolDies(w) PROVE DiskInv'
    BY <1>23
       DEF ToolDies, Fail, Return, Goto, WhereInv, DiskInv, BodyInv, disk, Content,
           Pinned, Empty, Body, Candidates
  <1>24. ASSUME GcList PROVE DiskInv'
    BY <1>24
       DEF GcList, WhereInv, DiskInv, BodyInv, disk, Content, Pinned, Empty, Body,
           Candidates
  <1>25. ASSUME GcRemove PROVE DiskInv'
    BY <1>25
       DEF GcRemove, WhereInv, DiskInv, BodyInv, disk, Content, Pinned, Empty, Body,
           Candidates
  <1>26. ASSUME OriginChanges PROVE DiskInv'
    BY <1>26
       DEF OriginChanges, WhereInv, DiskInv, BodyInv, disk, Content, Pinned, Empty,
           Body, Candidates
  <1>27. ASSUME ServerDies PROVE DiskInv'
    BY <1>27
       DEF ServerDies, WhereInv, DiskInv, BodyInv, disk, Content, Pinned, Empty, Body,
           Candidates
  <1>28. ASSUME CalmDown PROVE DiskInv'
    BY <1>28
       DEF CalmDown, WhereInv, DiskInv, BodyInv, disk, Content, Pinned, Empty, Body,
           Candidates
  <1> QED
    BY <1>0, <1>1, <1>2, <1>3, <1>4, <1>5, <1>6, <1>7, <1>8, <1>9, <1>10, <1>11, <1>12,
       <1>13, <1>14, <1>15, <1>16, <1>17, <1>18, <1>19, <1>20, <1>21, <1>22, <1>23,
       <1>24, <1>25, <1>26, <1>27, <1>28
       DEF Next, Download, Load

LEMMA BodyStep ==
    ASSUME WhereInv, DiskInv, BodyInv, [Next]_vars
    PROVE  BodyInv'
  <1> USE CountsAreNatural, Bodies
  <1>0. CASE UNCHANGED vars
    BY <1>0 DEF vars, disk, BodyInv
  <1>1. ASSUME NEW w \in Workers, TakeTurn(w) PROVE BodyInv'
    BY <1>1
       DEF TakeTurn, Goto, WhereInv, DiskInv, BodyInv, disk, Body, Existing, Content
  <1>2. ASSUME NEW w \in Workers, StartTool(w) PROVE BodyInv'
    BY <1>2
       DEF StartTool, Goto, WhereInv, DiskInv, BodyInv, disk, Body, Existing, Content
  <1>3. ASSUME NEW w \in Workers, LockForDownload(w) PROVE BodyInv'
    BY <1>3
       DEF LockForDownload, Goto, WhereInv, DiskInv, BodyInv, disk, Body, Existing,
           Content
  <1>4. ASSUME NEW w \in Workers, CheckFile(w) PROVE BodyInv'
    BY <1>4
       DEF CheckFile, Goto, WhereInv, DiskInv, BodyInv, disk, Body, Existing, Content
  <1>5. ASSUME NEW w \in Workers, EndAcquire(w) PROVE BodyInv'
    BY <1>5
       DEF EndAcquire, Goto, WhereInv, DiskInv, BodyInv, disk, Body, Existing, Content
  <1>6. ASSUME NEW w \in Workers, Request(w) PROVE BodyInv'
    BY <1>6 DEF Request, Goto, WhereInv, DiskInv, BodyInv, disk, Body, Existing, Content
  <1>7. ASSUME NEW w \in Workers, RequestFails(w) PROVE BodyInv'
    BY <1>7
       DEF RequestFails, Fail, Return, Goto, WhereInv, DiskInv, BodyInv, disk, Body,
           Existing, Content
  <1>8. ASSUME NEW w \in Workers, OpenPart(w) PROVE BodyInv'
    BY <1>8
       DEF OpenPart, Goto, WhereInv, DiskInv, BodyInv, disk, Body, Existing, Content
  <1>9. ASSUME NEW w \in Workers, Copy(w) PROVE BodyInv'
    BY <1>9 DEF Copy, Goto, WhereInv, DiskInv, BodyInv, disk, Body, Existing, Content
  <1>10. ASSUME NEW w \in Workers, CopyFails(w) PROVE BodyInv'
    BY <1>10
       DEF CopyFails, Fail, Return, Goto, WhereInv, DiskInv, BodyInv, disk, Body,
           Existing, Content
  <1>11. ASSUME NEW w \in Workers, Synced(w) PROVE BodyInv'
    BY <1>11 DEF Synced, Goto, WhereInv, DiskInv, BodyInv, disk, Body, Existing, Content
  <1>12. ASSUME NEW w \in Workers, VerifyPart(w) PROVE BodyInv'
    BY <1>12
       DEF VerifyPart, Goto, WhereInv, DiskInv, BodyInv, disk, Body, Existing, Content
  <1>13. ASSUME NEW w \in Workers, RejectPart(w) PROVE BodyInv'
    BY <1>13
       DEF RejectPart, Fail, Return, Goto, WhereInv, DiskInv, BodyInv, disk, Body,
           Existing, Content
  <1>14. ASSUME NEW w \in Workers, RemoveCorrupt(w) PROVE BodyInv'
    BY <1>14
       DEF RemoveCorrupt, Goto, WhereInv, DiskInv, BodyInv, disk, Body, Existing,
           Content
  <1>15. ASSUME NEW w \in Workers, Install(w) PROVE BodyInv'
    BY <1>15
       DEF Install, Goto, WhereInv, DiskInv, BodyInv, disk, Body, Existing, Content
  <1>16. ASSUME NEW w \in Workers, InstallFails(w) PROVE BodyInv'
    BY <1>16
       DEF InstallFails, Fail, Return, Goto, WhereInv, DiskInv, BodyInv, disk, Body,
           Existing, Content
  <1>17. ASSUME NEW w \in Workers, LockForLoad(w) PROVE BodyInv'
    BY <1>17
       DEF LockForLoad, Goto, WhereInv, DiskInv, BodyInv, disk, Body, Existing,
           Content
  <1>18. ASSUME NEW w \in Workers, VerifyFile(w) PROVE BodyInv'
    BY <1>18
       DEF VerifyFile, Goto, WhereInv, DiskInv, BodyInv, disk, Body, Existing, Content
  <1>19. ASSUME NEW w \in Workers, VerifyFails(w) PROVE BodyInv'
    BY <1>19
       DEF VerifyFails, Fail, Return, Goto, WhereInv, DiskInv, BodyInv, disk, Body,
           Existing, Content
  <1>20. ASSUME NEW w \in Workers, ReadFile(w) PROVE BodyInv'
    BY <1>20
       DEF ReadFile, Goto, WhereInv, DiskInv, BodyInv, disk, Body, Existing, Content
  <1>21. ASSUME NEW w \in Workers, ReadFails(w) PROVE BodyInv'
    BY <1>21
       DEF ReadFails, Fail, Return, Goto, WhereInv, DiskInv, BodyInv, disk, Body,
           Existing, Content
  <1>22. ASSUME NEW w \in Workers, KeepModel(w) PROVE BodyInv'
    BY <1>22
       DEF KeepModel, Return, Goto, WhereInv, DiskInv, BodyInv, disk, Body, Existing,
           Content
  <1>23. ASSUME NEW w \in Workers, ToolDies(w) PROVE BodyInv'
    BY <1>23
       DEF ToolDies, Fail, Return, Goto, WhereInv, DiskInv, BodyInv, disk, Body,
           Existing, Content
  <1>24. ASSUME GcList PROVE BodyInv'
    BY <1>24 DEF GcList, WhereInv, DiskInv, BodyInv, disk, Body, Existing, Content
  <1>25. ASSUME GcRemove PROVE BodyInv'
    BY <1>25 DEF GcRemove, WhereInv, DiskInv, BodyInv, disk, Body, Existing, Content
  <1>26. ASSUME OriginChanges PROVE BodyInv'
    BY <1>26
       DEF OriginChanges, WhereInv, DiskInv, BodyInv, disk, Body, Existing, Content
  <1>27. ASSUME ServerDies PROVE BodyInv'
    BY <1>27 DEF ServerDies, WhereInv, DiskInv, BodyInv, disk, Body, Existing, Content
  <1>28. ASSUME CalmDown PROVE BodyInv'
    BY <1>28 DEF CalmDown, WhereInv, DiskInv, BodyInv, disk, Body, Existing, Content
  <1> QED
    BY <1>0, <1>1, <1>2, <1>3, <1>4, <1>5, <1>6, <1>7, <1>8, <1>9, <1>10, <1>11, <1>12,
       <1>13, <1>14, <1>15, <1>16, <1>17, <1>18, <1>19, <1>20, <1>21, <1>22, <1>23,
       <1>24, <1>25, <1>26, <1>27, <1>28
       DEF Next, Download, Load

LEMMA MemoryStep ==
    ASSUME WhereInv, DiskInv, MemoryInv, [Next]_vars
    PROVE  MemoryInv'
  <1> USE CountsAreNatural, NoFileIsNoContent, First
  <1>0. CASE UNCHANGED vars
    BY <1>0 DEF vars, disk, MemoryInv
  <1>1. ASSUME NEW w \in Workers, TakeTurn(w) PROVE MemoryInv'
    BY <1>1
       DEF TakeTurn, Goto, WhereInv, DiskInv, MemoryInv, disk, Artifacts, NothingRead
  <1>2. ASSUME NEW w \in Workers, StartTool(w) PROVE MemoryInv'
    BY <1>2
       DEF StartTool, Goto, WhereInv, DiskInv, MemoryInv, disk, Artifacts, NothingRead
  <1>3. ASSUME NEW w \in Workers, LockForDownload(w) PROVE MemoryInv'
    BY <1>3
       DEF LockForDownload, Goto, WhereInv, DiskInv, MemoryInv, disk, Artifacts,
           NothingRead
  <1>4. ASSUME NEW w \in Workers, CheckFile(w) PROVE MemoryInv'
    BY <1>4
       DEF CheckFile, Goto, WhereInv, DiskInv, MemoryInv, disk, Artifacts, NothingRead
  <1>5. ASSUME NEW w \in Workers, EndAcquire(w) PROVE MemoryInv'
    BY <1>5
       DEF EndAcquire, Goto, WhereInv, DiskInv, MemoryInv, disk, Artifacts,
           NothingRead
  <1>6. ASSUME NEW w \in Workers, Request(w) PROVE MemoryInv'
    BY <1>6
       DEF Request, Goto, WhereInv, DiskInv, MemoryInv, disk, Artifacts, NothingRead
  <1>7. ASSUME NEW w \in Workers, RequestFails(w) PROVE MemoryInv'
    BY <1>7
       DEF RequestFails, Fail, Return, Goto, WhereInv, DiskInv, MemoryInv, disk,
           Artifacts, NothingRead
  <1>8. ASSUME NEW w \in Workers, OpenPart(w) PROVE MemoryInv'
    BY <1>8
       DEF OpenPart, Goto, WhereInv, DiskInv, MemoryInv, disk, Artifacts, NothingRead
  <1>9. ASSUME NEW w \in Workers, Copy(w) PROVE MemoryInv'
    BY <1>9 DEF Copy, Goto, WhereInv, DiskInv, MemoryInv, disk, Artifacts, NothingRead
  <1>10. ASSUME NEW w \in Workers, CopyFails(w) PROVE MemoryInv'
    BY <1>10
       DEF CopyFails, Fail, Return, Goto, WhereInv, DiskInv, MemoryInv, disk,
           Artifacts, NothingRead
  <1>11. ASSUME NEW w \in Workers, Synced(w) PROVE MemoryInv'
    BY <1>11
       DEF Synced, Goto, WhereInv, DiskInv, MemoryInv, disk, Artifacts, NothingRead
  <1>12. ASSUME NEW w \in Workers, VerifyPart(w) PROVE MemoryInv'
    BY <1>12
       DEF VerifyPart, Goto, WhereInv, DiskInv, MemoryInv, disk, Artifacts,
           NothingRead
  <1>13. ASSUME NEW w \in Workers, RejectPart(w) PROVE MemoryInv'
    BY <1>13
       DEF RejectPart, Fail, Return, Goto, WhereInv, DiskInv, MemoryInv, disk,
           Artifacts, NothingRead
  <1>14. ASSUME NEW w \in Workers, RemoveCorrupt(w) PROVE MemoryInv'
    BY <1>14
       DEF RemoveCorrupt, Goto, WhereInv, DiskInv, MemoryInv, disk, Artifacts,
           NothingRead
  <1>15. ASSUME NEW w \in Workers, Install(w) PROVE MemoryInv'
    BY <1>15
       DEF Install, Goto, WhereInv, DiskInv, MemoryInv, disk, Artifacts, NothingRead
  <1>16. ASSUME NEW w \in Workers, InstallFails(w) PROVE MemoryInv'
    BY <1>16
       DEF InstallFails, Fail, Return, Goto, WhereInv, DiskInv, MemoryInv, disk,
           Artifacts, NothingRead
  <1>17. ASSUME NEW w \in Workers, LockForLoad(w) PROVE MemoryInv'
    BY <1>17
       DEF LockForLoad, Goto, WhereInv, DiskInv, MemoryInv, disk, Artifacts,
           NothingRead
  <1>18. ASSUME NEW w \in Workers, VerifyFile(w) PROVE MemoryInv'
    <2>1. PICK label \in {"verify", "read", "idle"} :
            /\ pc' = [pc EXCEPT ![w] = label]
            /\ label = "read" => at' = [at EXCEPT ![w] = 1]
            /\ \A v \in Workers \ {w} : at'[v] = at[v]
      BY <1>18 DEF VerifyFile, Goto, WhereInv, Artifacts
    <2>2. ASSUME NEW v \in Workers, pc'[v] = "read", NEW a \in Artifacts, a < at'[v]
          PROVE  memory[v][a] # NoFile
      BY <2>1, <2>2 DEF WhereInv, MemoryInv, Artifacts
    <2>3. UNCHANGED <<memory, slot, turn>>
      BY <1>18 DEF VerifyFile
    <2> QED
      BY <2>2, <2>3 DEF MemoryInv
  <1>19. ASSUME NEW w \in Workers, VerifyFails(w) PROVE MemoryInv'
    BY <1>19
       DEF VerifyFails, Fail, Return, Goto, WhereInv, DiskInv, MemoryInv, disk,
           Artifacts, NothingRead
  <1>20. ASSUME NEW w \in Workers, ReadFile(w) PROVE MemoryInv'
    BY <1>20
       DEF ReadFile, Goto, WhereInv, DiskInv, MemoryInv, disk, Artifacts, NothingRead
  <1>21. ASSUME NEW w \in Workers, ReadFails(w) PROVE MemoryInv'
    BY <1>21
       DEF ReadFails, Fail, Return, Goto, WhereInv, DiskInv, MemoryInv, disk,
           Artifacts, NothingRead
  <1>22. ASSUME NEW w \in Workers, KeepModel(w) PROVE MemoryInv'
    <2>1. /\ pc[w] = "read" /\ at[w] = N /\ files[N] \in Content
          /\ slot' = [memory[w] EXCEPT ![N] = files[N]]
      BY <1>22 DEF KeepModel, DiskInv
    <2>2. \A a \in Artifacts : a # N => memory[w][a] \in Content
      BY <2>1 DEF MemoryInv, Artifacts
    <2>3. slot' \in [Artifacts -> Content]
      BY <2>1, <2>2 DEF MemoryInv
    <2>4. /\ pc' = [pc EXCEPT ![w] = "idle"] /\ at' = [at EXCEPT ![w] = 1]
          /\ memory' = [memory EXCEPT ![w] = NothingRead]
          /\ turn' = IF turn = w THEN NoThread ELSE turn
      BY <1>22 DEF KeepModel, Return, Goto
    <2>5. NothingRead \in [Artifacts -> Content \cup {NoFile}]
      BY DEF NothingRead
    <2> QED
      BY <2>3, <2>4, <2>5 DEF WhereInv, MemoryInv
  <1>23. ASSUME NEW w \in Workers, ToolDies(w) PROVE MemoryInv'
    BY <1>23
       DEF ToolDies, Fail, Return, Goto, WhereInv, DiskInv, MemoryInv, disk, Artifacts,
           NothingRead
  <1>24. ASSUME GcList PROVE MemoryInv'
    BY <1>24 DEF GcList, WhereInv, DiskInv, MemoryInv, disk, Artifacts, NothingRead
  <1>25. ASSUME GcRemove PROVE MemoryInv'
    BY <1>25 DEF GcRemove, WhereInv, DiskInv, MemoryInv, disk, Artifacts, NothingRead
  <1>26. ASSUME OriginChanges PROVE MemoryInv'
    BY <1>26
       DEF OriginChanges, WhereInv, DiskInv, MemoryInv, disk, Artifacts, NothingRead
  <1>27. ASSUME ServerDies PROVE MemoryInv'
    BY <1>27 DEF ServerDies, WhereInv, DiskInv, MemoryInv, disk, Artifacts, NothingRead
  <1>28. ASSUME CalmDown PROVE MemoryInv'
    BY <1>28 DEF CalmDown, WhereInv, DiskInv, MemoryInv, disk, Artifacts, NothingRead
  <1> QED
    BY <1>0, <1>1, <1>2, <1>3, <1>4, <1>5, <1>6, <1>7, <1>8, <1>9, <1>10, <1>11, <1>12,
       <1>13, <1>14, <1>15, <1>16, <1>17, <1>18, <1>19, <1>20, <1>21, <1>22, <1>23,
       <1>24, <1>25, <1>26, <1>27, <1>28
       DEF Next, Download, Load

-----------------------------------------------------------------------------
(* The lock, and what its holders rely on.                                 *)

LEMMA LockStep ==
    ASSUME WhereInv, LockInv, [Next]_vars
    PROVE  LockInv'
  <1>0. CASE UNCHANGED vars
    BY <1>0 DEF vars, disk, LockInv
  <1>1. ASSUME NEW w \in Workers, TakeTurn(w) PROVE LockInv'
    BY <1>1
       DEF TakeTurn, Goto, WhereInv, LockInv, LockIsFree, Labels, Downloading, Writing,
           Loading
  <1>2. ASSUME NEW w \in Workers, StartTool(w) PROVE LockInv'
    BY <1>2
       DEF StartTool, Goto, WhereInv, LockInv, LockIsFree, Labels, Downloading,
           Writing, Loading
  <1>3. ASSUME NEW w \in Workers, LockForDownload(w) PROVE LockInv'
    BY <1>3
       DEF LockForDownload, Goto, WhereInv, LockInv, LockIsFree, Labels, Downloading,
           Writing, Loading
  <1>4. ASSUME NEW w \in Workers, CheckFile(w) PROVE LockInv'
    BY <1>4
       DEF CheckFile, Goto, WhereInv, LockInv, LockIsFree, Labels, Downloading,
           Writing, Loading
  <1>5. ASSUME NEW w \in Workers, EndAcquire(w) PROVE LockInv'
    BY <1>5
       DEF EndAcquire, Goto, WhereInv, LockInv, LockIsFree, Labels, Downloading,
           Writing, Loading
  <1>6. ASSUME NEW w \in Workers, Request(w) PROVE LockInv'
    BY <1>6
       DEF Request, Goto, WhereInv, LockInv, LockIsFree, Labels, Downloading, Writing,
           Loading
  <1>7. ASSUME NEW w \in Workers, RequestFails(w) PROVE LockInv'
    BY <1>7
       DEF RequestFails, Fail, Return, Goto, WhereInv, LockInv, LockIsFree, Labels,
           Downloading, Writing, Loading
  <1>8. ASSUME NEW w \in Workers, OpenPart(w) PROVE LockInv'
    BY <1>8
       DEF OpenPart, Goto, WhereInv, LockInv, LockIsFree, Labels, Downloading, Writing,
           Loading
  <1>9. ASSUME NEW w \in Workers, Copy(w) PROVE LockInv'
    BY <1>9
       DEF Copy, Goto, WhereInv, LockInv, LockIsFree, Labels, Downloading, Writing,
           Loading
  <1>10. ASSUME NEW w \in Workers, CopyFails(w) PROVE LockInv'
    BY <1>10
       DEF CopyFails, Fail, Return, Goto, WhereInv, LockInv, LockIsFree, Labels,
           Downloading, Writing, Loading
  <1>11. ASSUME NEW w \in Workers, Synced(w) PROVE LockInv'
    BY <1>11
       DEF Synced, Goto, WhereInv, LockInv, LockIsFree, Labels, Downloading, Writing,
           Loading
  <1>12. ASSUME NEW w \in Workers, VerifyPart(w) PROVE LockInv'
    BY <1>12
       DEF VerifyPart, Goto, WhereInv, LockInv, LockIsFree, Labels, Downloading,
           Writing, Loading
  <1>13. ASSUME NEW w \in Workers, RejectPart(w) PROVE LockInv'
    BY <1>13
       DEF RejectPart, Fail, Return, Goto, WhereInv, LockInv, LockIsFree, Labels,
           Downloading, Writing, Loading
  <1>14. ASSUME NEW w \in Workers, RemoveCorrupt(w) PROVE LockInv'
    BY <1>14
       DEF RemoveCorrupt, Goto, WhereInv, LockInv, LockIsFree, Labels, Downloading,
           Writing, Loading
  <1>15. ASSUME NEW w \in Workers, Install(w) PROVE LockInv'
    BY <1>15
       DEF Install, Goto, WhereInv, LockInv, LockIsFree, Labels, Downloading, Writing,
           Loading
  <1>16. ASSUME NEW w \in Workers, InstallFails(w) PROVE LockInv'
    BY <1>16
       DEF InstallFails, Fail, Return, Goto, WhereInv, LockInv, LockIsFree, Labels,
           Downloading, Writing, Loading
  <1>17. ASSUME NEW w \in Workers, LockForLoad(w) PROVE LockInv'
    BY <1>17
       DEF LockForLoad, Goto, WhereInv, LockInv, LockIsFree, Labels, Downloading,
           Writing, Loading
  <1>18. ASSUME NEW w \in Workers, VerifyFile(w) PROVE LockInv'
    BY <1>18
       DEF VerifyFile, Goto, WhereInv, LockInv, LockIsFree, Labels, Downloading,
           Writing, Loading
  <1>19. ASSUME NEW w \in Workers, VerifyFails(w) PROVE LockInv'
    BY <1>19
       DEF VerifyFails, Fail, Return, Goto, WhereInv, LockInv, LockIsFree, Labels,
           Downloading, Writing, Loading
  <1>20. ASSUME NEW w \in Workers, ReadFile(w) PROVE LockInv'
    BY <1>20
       DEF ReadFile, Goto, WhereInv, LockInv, LockIsFree, Labels, Downloading, Writing,
           Loading
  <1>21. ASSUME NEW w \in Workers, ReadFails(w) PROVE LockInv'
    BY <1>21
       DEF ReadFails, Fail, Return, Goto, WhereInv, LockInv, LockIsFree, Labels,
           Downloading, Writing, Loading
  <1>22. ASSUME NEW w \in Workers, KeepModel(w) PROVE LockInv'
    BY <1>22
       DEF KeepModel, Return, Goto, WhereInv, LockInv, LockIsFree, Labels, Downloading,
           Writing, Loading
  <1>23. ASSUME NEW w \in Workers, ToolDies(w) PROVE LockInv'
    BY <1>23
       DEF ToolDies, Fail, Return, Goto, WhereInv, LockInv, LockIsFree, Labels,
           Downloading, Writing, Loading
  <1>24. ASSUME GcList PROVE LockInv'
    BY <1>24
       DEF GcList, WhereInv, LockInv, LockIsFree, Labels, Downloading, Writing,
           Loading
  <1>25. ASSUME GcRemove PROVE LockInv'
    BY <1>25
       DEF GcRemove, WhereInv, LockInv, LockIsFree, Labels, Downloading, Writing,
           Loading
  <1>26. ASSUME OriginChanges PROVE LockInv'
    BY <1>26
       DEF OriginChanges, WhereInv, LockInv, LockIsFree, Labels, Downloading, Writing,
           Loading
  <1>27. ASSUME ServerDies PROVE LockInv'
    BY <1>27
       DEF ServerDies, WhereInv, LockInv, LockIsFree, Labels, Downloading, Writing,
           Loading
  <1>28. ASSUME CalmDown PROVE LockInv'
    BY <1>28
       DEF CalmDown, WhereInv, LockInv, LockIsFree, Labels, Downloading, Writing,
           Loading
  <1> QED
    BY <1>0, <1>1, <1>2, <1>3, <1>4, <1>5, <1>6, <1>7, <1>8, <1>9, <1>10, <1>11, <1>12,
       <1>13, <1>14, <1>15, <1>16, <1>17, <1>18, <1>19, <1>20, <1>21, <1>22, <1>23,
       <1>24, <1>25, <1>26, <1>27, <1>28
       DEF Next, Download, Load

LEMMA PartStep ==
    ASSUME WhereInv, DiskInv, LockInv, PartInv, [Next]_vars
    PROVE  PartInv'
  <1>0. CASE UNCHANGED vars
    BY <1>0 DEF vars, disk, PartInv
  <1>1. ASSUME NEW w \in Workers, TakeTurn(w) PROVE PartInv'
    BY <1>1
       DEF TakeTurn, Goto, WhereInv, DiskInv, LockInv, PartInv, Verifies, disk, Labels,
           Downloading, Writing, Loading
  <1>2. ASSUME NEW w \in Workers, StartTool(w) PROVE PartInv'
    BY <1>2
       DEF StartTool, Goto, WhereInv, DiskInv, LockInv, PartInv, Verifies, disk,
           Labels, Downloading, Writing, Loading
  <1>3. ASSUME NEW w \in Workers, LockForDownload(w) PROVE PartInv'
    BY <1>3
       DEF LockForDownload, Goto, WhereInv, DiskInv, LockInv, PartInv, Verifies, disk,
           Labels, Downloading, Writing, Loading
  <1>4. ASSUME NEW w \in Workers, CheckFile(w) PROVE PartInv'
    BY <1>4
       DEF CheckFile, Goto, WhereInv, DiskInv, LockInv, PartInv, Verifies, disk,
           Labels, Downloading, Writing, Loading
  <1>5. ASSUME NEW w \in Workers, EndAcquire(w) PROVE PartInv'
    BY <1>5
       DEF EndAcquire, Goto, WhereInv, DiskInv, LockInv, PartInv, Verifies, disk,
           Labels, Downloading, Writing, Loading
  <1>6. ASSUME NEW w \in Workers, Request(w) PROVE PartInv'
    BY <1>6
       DEF Request, Goto, WhereInv, DiskInv, LockInv, PartInv, Verifies, disk, Labels,
           Downloading, Writing, Loading
  <1>7. ASSUME NEW w \in Workers, RequestFails(w) PROVE PartInv'
    BY <1>7
       DEF RequestFails, Fail, Return, Goto, WhereInv, DiskInv, LockInv, PartInv,
           Verifies, disk, Labels, Downloading, Writing, Loading
  <1>8. ASSUME NEW w \in Workers, OpenPart(w) PROVE PartInv'
    BY <1>8
       DEF OpenPart, Goto, WhereInv, DiskInv, LockInv, PartInv, Verifies, disk, Labels,
           Downloading, Writing, Loading
  <1>9. ASSUME NEW w \in Workers, Copy(w) PROVE PartInv'
    BY <1>9
       DEF Copy, Goto, WhereInv, DiskInv, LockInv, PartInv, Verifies, disk, Labels,
           Downloading, Writing, Loading
  <1>10. ASSUME NEW w \in Workers, CopyFails(w) PROVE PartInv'
    BY <1>10
       DEF CopyFails, Fail, Return, Goto, WhereInv, DiskInv, LockInv, PartInv,
           Verifies, disk, Labels, Downloading, Writing, Loading
  <1>11. ASSUME NEW w \in Workers, Synced(w) PROVE PartInv'
    BY <1>11
       DEF Synced, Goto, WhereInv, DiskInv, LockInv, PartInv, Verifies, disk, Labels,
           Downloading, Writing, Loading
  <1>12. ASSUME NEW w \in Workers, VerifyPart(w) PROVE PartInv'
    BY <1>12
       DEF VerifyPart, Goto, WhereInv, DiskInv, LockInv, PartInv, Verifies, disk,
           Labels, Downloading, Writing, Loading
  <1>13. ASSUME NEW w \in Workers, RejectPart(w) PROVE PartInv'
    BY <1>13
       DEF RejectPart, Fail, Return, Goto, WhereInv, DiskInv, LockInv, PartInv,
           Verifies, disk, Labels, Downloading, Writing, Loading
  <1>14. ASSUME NEW w \in Workers, RemoveCorrupt(w) PROVE PartInv'
    BY <1>14
       DEF RemoveCorrupt, Goto, WhereInv, DiskInv, LockInv, PartInv, Verifies, disk,
           Labels, Downloading, Writing, Loading
  <1>15. ASSUME NEW w \in Workers, Install(w) PROVE PartInv'
    BY <1>15
       DEF Install, Goto, WhereInv, DiskInv, LockInv, PartInv, Verifies, disk, Labels,
           Downloading, Writing, Loading
  <1>16. ASSUME NEW w \in Workers, InstallFails(w) PROVE PartInv'
    BY <1>16
       DEF InstallFails, Fail, Return, Goto, WhereInv, DiskInv, LockInv, PartInv,
           Verifies, disk, Labels, Downloading, Writing, Loading
  <1>17. ASSUME NEW w \in Workers, LockForLoad(w) PROVE PartInv'
    BY <1>17
       DEF LockForLoad, Goto, WhereInv, DiskInv, LockInv, PartInv, Verifies, disk,
           Labels, Downloading, Writing, Loading
  <1>18. ASSUME NEW w \in Workers, VerifyFile(w) PROVE PartInv'
    BY <1>18
       DEF VerifyFile, Goto, WhereInv, DiskInv, LockInv, PartInv, Verifies, disk,
           Labels, Downloading, Writing, Loading
  <1>19. ASSUME NEW w \in Workers, VerifyFails(w) PROVE PartInv'
    BY <1>19
       DEF VerifyFails, Fail, Return, Goto, WhereInv, DiskInv, LockInv, PartInv,
           Verifies, disk, Labels, Downloading, Writing, Loading
  <1>20. ASSUME NEW w \in Workers, ReadFile(w) PROVE PartInv'
    BY <1>20
       DEF ReadFile, Goto, WhereInv, DiskInv, LockInv, PartInv, Verifies, disk, Labels,
           Downloading, Writing, Loading
  <1>21. ASSUME NEW w \in Workers, ReadFails(w) PROVE PartInv'
    BY <1>21
       DEF ReadFails, Fail, Return, Goto, WhereInv, DiskInv, LockInv, PartInv,
           Verifies, disk, Labels, Downloading, Writing, Loading
  <1>22. ASSUME NEW w \in Workers, KeepModel(w) PROVE PartInv'
    BY <1>22
       DEF KeepModel, Return, Goto, WhereInv, DiskInv, LockInv, PartInv, Verifies,
           disk, Labels, Downloading, Writing, Loading
  <1>23. ASSUME NEW w \in Workers, ToolDies(w) PROVE PartInv'
    BY <1>23
       DEF ToolDies, Fail, Return, Goto, WhereInv, DiskInv, LockInv, PartInv, Verifies,
           disk, Labels, Downloading, Writing, Loading
  <1>24. ASSUME GcList PROVE PartInv'
    BY <1>24
       DEF GcList, WhereInv, DiskInv, LockInv, PartInv, Verifies, disk, Labels,
           Downloading, Writing, Loading
  <1>25. ASSUME GcRemove PROVE PartInv'
    BY <1>25
       DEF GcRemove, WhereInv, DiskInv, LockInv, PartInv, Verifies, disk, Labels,
           Downloading, Writing, Loading
  <1>26. ASSUME OriginChanges PROVE PartInv'
    BY <1>26
       DEF OriginChanges, WhereInv, DiskInv, LockInv, PartInv, Verifies, disk, Labels,
           Downloading, Writing, Loading
  <1>27. ASSUME ServerDies PROVE PartInv'
    BY <1>27
       DEF ServerDies, WhereInv, DiskInv, LockInv, PartInv, Verifies, disk, Labels,
           Downloading, Writing, Loading
  <1>28. ASSUME CalmDown PROVE PartInv'
    BY <1>28
       DEF CalmDown, WhereInv, DiskInv, LockInv, PartInv, Verifies, disk, Labels,
           Downloading, Writing, Loading
  <1> QED
    BY <1>0, <1>1, <1>2, <1>3, <1>4, <1>5, <1>6, <1>7, <1>8, <1>9, <1>10, <1>11, <1>12,
       <1>13, <1>14, <1>15, <1>16, <1>17, <1>18, <1>19, <1>20, <1>21, <1>22, <1>23,
       <1>24, <1>25, <1>26, <1>27, <1>28
       DEF Next, Download, Load

LEMMA VerifiedStep ==
    ASSUME WhereInv, DiskInv, MemoryInv, LockInv, VerifiedInv, [Next]_vars
    PROVE  VerifiedInv'
  <1> USE CountsAreNatural, First
  <1>0. CASE UNCHANGED vars
    BY <1>0 DEF vars, disk, VerifiedInv
  <1>1. ASSUME NEW w \in Workers, TakeTurn(w) PROVE VerifiedInv'
    BY <1>1
       DEF TakeTurn, Goto, WhereInv, DiskInv, MemoryInv, LockInv, VerifiedInv,
           Verifies, disk, Artifacts, Labels, Downloading, Writing, Loading
  <1>2. ASSUME NEW w \in Workers, StartTool(w) PROVE VerifiedInv'
    BY <1>2
       DEF StartTool, Goto, WhereInv, DiskInv, MemoryInv, LockInv, VerifiedInv,
           Verifies, disk, Artifacts, Labels, Downloading, Writing, Loading
  <1>3. ASSUME NEW w \in Workers, LockForDownload(w) PROVE VerifiedInv'
    BY <1>3
       DEF LockForDownload, Goto, WhereInv, DiskInv, MemoryInv, LockInv, VerifiedInv,
           Verifies, disk, Artifacts, Labels, Downloading, Writing, Loading
  <1>4. ASSUME NEW w \in Workers, CheckFile(w) PROVE VerifiedInv'
    BY <1>4
       DEF CheckFile, Goto, WhereInv, DiskInv, MemoryInv, LockInv, VerifiedInv,
           Verifies, disk, Artifacts, Labels, Downloading, Writing, Loading
  <1>5. ASSUME NEW w \in Workers, EndAcquire(w) PROVE VerifiedInv'
    BY <1>5
       DEF EndAcquire, Goto, WhereInv, DiskInv, MemoryInv, LockInv, VerifiedInv,
           Verifies, disk, Artifacts, Labels, Downloading, Writing, Loading
  <1>6. ASSUME NEW w \in Workers, Request(w) PROVE VerifiedInv'
    BY <1>6
       DEF Request, Goto, WhereInv, DiskInv, MemoryInv, LockInv, VerifiedInv, Verifies,
           disk, Artifacts, Labels, Downloading, Writing, Loading
  <1>7. ASSUME NEW w \in Workers, RequestFails(w) PROVE VerifiedInv'
    BY <1>7
       DEF RequestFails, Fail, Return, Goto, WhereInv, DiskInv, MemoryInv, LockInv,
           VerifiedInv, Verifies, disk, Artifacts, Labels, Downloading, Writing,
           Loading
  <1>8. ASSUME NEW w \in Workers, OpenPart(w) PROVE VerifiedInv'
    BY <1>8
       DEF OpenPart, Goto, WhereInv, DiskInv, MemoryInv, LockInv, VerifiedInv,
           Verifies, disk, Artifacts, Labels, Downloading, Writing, Loading
  <1>9. ASSUME NEW w \in Workers, Copy(w) PROVE VerifiedInv'
    BY <1>9
       DEF Copy, Goto, WhereInv, DiskInv, MemoryInv, LockInv, VerifiedInv, Verifies,
           disk, Artifacts, Labels, Downloading, Writing, Loading
  <1>10. ASSUME NEW w \in Workers, CopyFails(w) PROVE VerifiedInv'
    BY <1>10
       DEF CopyFails, Fail, Return, Goto, WhereInv, DiskInv, MemoryInv, LockInv,
           VerifiedInv, Verifies, disk, Artifacts, Labels, Downloading, Writing,
           Loading
  <1>11. ASSUME NEW w \in Workers, Synced(w) PROVE VerifiedInv'
    BY <1>11
       DEF Synced, Goto, WhereInv, DiskInv, MemoryInv, LockInv, VerifiedInv, Verifies,
           disk, Artifacts, Labels, Downloading, Writing, Loading
  <1>12. ASSUME NEW w \in Workers, VerifyPart(w) PROVE VerifiedInv'
    BY <1>12
       DEF VerifyPart, Goto, WhereInv, DiskInv, MemoryInv, LockInv, VerifiedInv,
           Verifies, disk, Artifacts, Labels, Downloading, Writing, Loading
  <1>13. ASSUME NEW w \in Workers, RejectPart(w) PROVE VerifiedInv'
    BY <1>13
       DEF RejectPart, Fail, Return, Goto, WhereInv, DiskInv, MemoryInv, LockInv,
           VerifiedInv, Verifies, disk, Artifacts, Labels, Downloading, Writing,
           Loading
  <1>14. ASSUME NEW w \in Workers, RemoveCorrupt(w) PROVE VerifiedInv'
    BY <1>14
       DEF RemoveCorrupt, Goto, WhereInv, DiskInv, MemoryInv, LockInv, VerifiedInv,
           Verifies, disk, Artifacts, Labels, Downloading, Writing, Loading
  <1>15. ASSUME NEW w \in Workers, Install(w) PROVE VerifiedInv'
    BY <1>15
       DEF Install, Goto, WhereInv, DiskInv, MemoryInv, LockInv, VerifiedInv, Verifies,
           disk, Artifacts, Labels, Downloading, Writing, Loading
  <1>16. ASSUME NEW w \in Workers, InstallFails(w) PROVE VerifiedInv'
    BY <1>16
       DEF InstallFails, Fail, Return, Goto, WhereInv, DiskInv, MemoryInv, LockInv,
           VerifiedInv, Verifies, disk, Artifacts, Labels, Downloading, Writing,
           Loading
  <1>17. ASSUME NEW w \in Workers, LockForLoad(w) PROVE VerifiedInv'
    BY <1>17
       DEF LockForLoad, Goto, WhereInv, DiskInv, MemoryInv, LockInv, VerifiedInv,
           Verifies, disk, Artifacts, Labels, Downloading, Writing, Loading
  <1>18. ASSUME NEW w \in Workers, VerifyFile(w) PROVE VerifiedInv'
    BY <1>18
       DEF VerifyFile, Goto, WhereInv, DiskInv, MemoryInv, LockInv, VerifiedInv,
           Verifies, disk, Artifacts, Labels, Downloading, Writing, Loading
  <1>19. ASSUME NEW w \in Workers, VerifyFails(w) PROVE VerifiedInv'
    BY <1>19
       DEF VerifyFails, Fail, Return, Goto, WhereInv, DiskInv, MemoryInv, LockInv,
           VerifiedInv, Verifies, disk, Artifacts, Labels, Downloading, Writing,
           Loading
  <1>20. ASSUME NEW w \in Workers, ReadFile(w) PROVE VerifiedInv'
    BY <1>20
       DEF ReadFile, Goto, WhereInv, DiskInv, MemoryInv, LockInv, VerifiedInv,
           Verifies, disk, Artifacts, Labels, Downloading, Writing, Loading
  <1>21. ASSUME NEW w \in Workers, ReadFails(w) PROVE VerifiedInv'
    BY <1>21
       DEF ReadFails, Fail, Return, Goto, WhereInv, DiskInv, MemoryInv, LockInv,
           VerifiedInv, Verifies, disk, Artifacts, Labels, Downloading, Writing,
           Loading
  <1>22. ASSUME NEW w \in Workers, KeepModel(w) PROVE VerifiedInv'
    BY <1>22
       DEF KeepModel, Return, Goto, WhereInv, DiskInv, MemoryInv, LockInv, VerifiedInv,
           Verifies, disk, Artifacts, Labels, Downloading, Writing, Loading
  <1>23. ASSUME NEW w \in Workers, ToolDies(w) PROVE VerifiedInv'
    BY <1>23
       DEF ToolDies, Fail, Return, Goto, WhereInv, DiskInv, MemoryInv, LockInv,
           VerifiedInv, Verifies, disk, Artifacts, Labels, Downloading, Writing,
           Loading
  <1>24. ASSUME GcList PROVE VerifiedInv'
    BY <1>24
       DEF GcList, WhereInv, DiskInv, MemoryInv, LockInv, VerifiedInv, Verifies, disk,
           Artifacts, Labels, Downloading, Writing, Loading
  <1>25. ASSUME GcRemove PROVE VerifiedInv'
    BY <1>25
       DEF GcRemove, WhereInv, DiskInv, MemoryInv, LockInv, VerifiedInv, Verifies,
           disk, Artifacts, Labels, Downloading, Writing, Loading
  <1>26. ASSUME OriginChanges PROVE VerifiedInv'
    BY <1>26
       DEF OriginChanges, WhereInv, DiskInv, MemoryInv, LockInv, VerifiedInv, Verifies,
           disk, Artifacts, Labels, Downloading, Writing, Loading
  <1>27. ASSUME ServerDies PROVE VerifiedInv'
    BY <1>27
       DEF ServerDies, WhereInv, DiskInv, MemoryInv, LockInv, VerifiedInv, Verifies,
           disk, Artifacts, Labels, Downloading, Writing, Loading
  <1>28. ASSUME CalmDown PROVE VerifiedInv'
    BY <1>28
       DEF CalmDown, WhereInv, DiskInv, MemoryInv, LockInv, VerifiedInv, Verifies,
           disk, Artifacts, Labels, Downloading, Writing, Loading
  <1> QED
    BY <1>0, <1>1, <1>2, <1>3, <1>4, <1>5, <1>6, <1>7, <1>8, <1>9, <1>10, <1>11, <1>12,
       <1>13, <1>14, <1>15, <1>16, <1>17, <1>18, <1>19, <1>20, <1>21, <1>22, <1>23,
       <1>24, <1>25, <1>26, <1>27, <1>28
       DEF Next, Download, Load

LEMMA LoadedStep ==
    ASSUME WhereInv, DiskInv, MemoryInv, VerifiedInv, LoadedIsPinned, [Next]_vars
    PROVE  LoadedIsPinned'
  <1>0. CASE UNCHANGED vars
    BY <1>0 DEF vars, disk, LoadedIsPinned
  <1>1. ASSUME NEW w \in Workers, TakeTurn(w) PROVE LoadedIsPinned'
    BY <1>1 DEF TakeTurn, Goto, LoadedIsPinned, disk
  <1>2. ASSUME NEW w \in Workers, StartTool(w) PROVE LoadedIsPinned'
    BY <1>2 DEF StartTool, Goto, LoadedIsPinned, disk
  <1>3. ASSUME NEW w \in Workers, LockForDownload(w) PROVE LoadedIsPinned'
    BY <1>3 DEF LockForDownload, Goto, LoadedIsPinned, disk
  <1>4. ASSUME NEW w \in Workers, CheckFile(w) PROVE LoadedIsPinned'
    BY <1>4 DEF CheckFile, Goto, LoadedIsPinned, disk
  <1>5. ASSUME NEW w \in Workers, EndAcquire(w) PROVE LoadedIsPinned'
    BY <1>5 DEF EndAcquire, Goto, LoadedIsPinned, disk
  <1>6. ASSUME NEW w \in Workers, Request(w) PROVE LoadedIsPinned'
    BY <1>6 DEF Request, Goto, LoadedIsPinned, disk
  <1>7. ASSUME NEW w \in Workers, RequestFails(w) PROVE LoadedIsPinned'
    BY <1>7 DEF RequestFails, Fail, Return, Goto, LoadedIsPinned, disk
  <1>8. ASSUME NEW w \in Workers, OpenPart(w) PROVE LoadedIsPinned'
    BY <1>8 DEF OpenPart, Goto, LoadedIsPinned, disk
  <1>9. ASSUME NEW w \in Workers, Copy(w) PROVE LoadedIsPinned'
    BY <1>9 DEF Copy, Goto, LoadedIsPinned, disk
  <1>10. ASSUME NEW w \in Workers, CopyFails(w) PROVE LoadedIsPinned'
    BY <1>10 DEF CopyFails, Fail, Return, Goto, LoadedIsPinned, disk
  <1>11. ASSUME NEW w \in Workers, Synced(w) PROVE LoadedIsPinned'
    BY <1>11 DEF Synced, Goto, LoadedIsPinned, disk
  <1>12. ASSUME NEW w \in Workers, VerifyPart(w) PROVE LoadedIsPinned'
    BY <1>12 DEF VerifyPart, Goto, LoadedIsPinned, disk
  <1>13. ASSUME NEW w \in Workers, RejectPart(w) PROVE LoadedIsPinned'
    BY <1>13 DEF RejectPart, Fail, Return, Goto, LoadedIsPinned, disk
  <1>14. ASSUME NEW w \in Workers, RemoveCorrupt(w) PROVE LoadedIsPinned'
    BY <1>14 DEF RemoveCorrupt, Goto, LoadedIsPinned, disk
  <1>15. ASSUME NEW w \in Workers, Install(w) PROVE LoadedIsPinned'
    BY <1>15 DEF Install, Goto, LoadedIsPinned, disk
  <1>16. ASSUME NEW w \in Workers, InstallFails(w) PROVE LoadedIsPinned'
    BY <1>16 DEF InstallFails, Fail, Return, Goto, LoadedIsPinned, disk
  <1>17. ASSUME NEW w \in Workers, LockForLoad(w) PROVE LoadedIsPinned'
    BY <1>17 DEF LockForLoad, Goto, LoadedIsPinned, disk
  <1>18. ASSUME NEW w \in Workers, VerifyFile(w) PROVE LoadedIsPinned'
    BY <1>18 DEF VerifyFile, Goto, LoadedIsPinned, disk
  <1>19. ASSUME NEW w \in Workers, VerifyFails(w) PROVE LoadedIsPinned'
    BY <1>19 DEF VerifyFails, Fail, Return, Goto, LoadedIsPinned, disk
  <1>20. ASSUME NEW w \in Workers, ReadFile(w) PROVE LoadedIsPinned'
    BY <1>20 DEF ReadFile, Goto, LoadedIsPinned, disk
  <1>21. ASSUME NEW w \in Workers, ReadFails(w) PROVE LoadedIsPinned'
    BY <1>21 DEF ReadFails, Fail, Return, Goto, LoadedIsPinned, disk
  <1>22. ASSUME NEW w \in Workers, KeepModel(w) PROVE LoadedIsPinned'
    BY <1>22
       DEF KeepModel, Return, Goto, LoadedIsPinned, disk, WhereInv, DiskInv, MemoryInv,
           VerifiedInv, Artifacts
  <1>23. ASSUME NEW w \in Workers, ToolDies(w) PROVE LoadedIsPinned'
    BY <1>23 DEF ToolDies, Fail, Return, Goto, LoadedIsPinned, disk
  <1>24. ASSUME GcList PROVE LoadedIsPinned'
    BY <1>24 DEF GcList, LoadedIsPinned, disk
  <1>25. ASSUME GcRemove PROVE LoadedIsPinned'
    BY <1>25 DEF GcRemove, LoadedIsPinned, disk
  <1>26. ASSUME OriginChanges PROVE LoadedIsPinned'
    BY <1>26 DEF OriginChanges, LoadedIsPinned, disk
  <1>27. ASSUME ServerDies PROVE LoadedIsPinned'
    BY <1>27 DEF ServerDies, LoadedIsPinned, disk
  <1>28. ASSUME CalmDown PROVE LoadedIsPinned'
    BY <1>28 DEF CalmDown, LoadedIsPinned, disk
  <1> QED
    BY <1>0, <1>1, <1>2, <1>3, <1>4, <1>5, <1>6, <1>7, <1>8, <1>9, <1>10, <1>11, <1>12,
       <1>13, <1>14, <1>15, <1>16, <1>17, <1>18, <1>19, <1>20, <1>21, <1>22, <1>23,
       <1>24, <1>25, <1>26, <1>27, <1>28
       DEF Next, Download, Load

-----------------------------------------------------------------------------
(* The invariant and what follows from it.                                 *)

LEMMA InitInv == Init => CacheInv
  <1> SUFFICES ASSUME Init PROVE CacheInv
    OBVIOUS
  <1>1. WhereInv
    BY First DEF Init, WhereInv, Labels
  <1>2. DiskInv
    BY Contents DEF Init, DiskInv
  <1>3. BodyInv
    BY Bodies DEF Init, BodyInv
  <1>4. MemoryInv
    BY DEF Init, MemoryInv, NothingRead
  <1>5. LockInv /\ PartInv /\ VerifiedInv /\ LoadedIsPinned
    BY DEF Init, LockInv, PartInv, VerifiedInv, LoadedIsPinned, Downloading, Writing
  <1> QED
    BY <1>1, <1>2, <1>3, <1>4, <1>5 DEF CacheInv, TypeInv

LEMMA StepInv == CacheInv /\ [Next]_vars => CacheInv'
  BY WhereStep, DiskStep, BodyStep, MemoryStep, LockStep, PartStep, VerifiedStep,
     LoadedStep
     DEF CacheInv, TypeInv

LEMMA CacheAlways == Spec => []CacheInv
  BY InitInv, StepInv, PTL DEF Spec

(* Every variable keeps its type: no download is longer than its artifact  *)
(* and no worker goes beyond the last one (embedder.rs).                   *)
THEOREM TypeCorrect == Spec => []TypeOK
  <1>1. CacheInv => TypeOK
    BY DEF CacheInv, TypeInv, WhereInv, DiskInv, BodyInv, MemoryInv, TypeOK, Labels
  <1> QED
    BY <1>1, CacheAlways, PTL

(* from_verified_files and resolve_cached_embedder: the model that a       *)
(* server keeps was made of pinned bytes, although its files were opened   *)
(* again after their verification.                                         *)
THEOREM KeptModelIsPinned == Spec => []LoadedIsPinned
  BY CacheAlways, PTL DEF CacheInv

Installs == \A a \in Artifacts : files'[a] \in {files[a], NoFile, Pinned}

LEMMA InstallsWell ==
    ASSUME CacheInv, [Next]_vars
    PROVE  Installs
  <1> USE DEF CacheInv, TypeInv
  <1>0. CASE UNCHANGED vars
    BY <1>0 DEF vars, disk, Installs
  <1>1. ASSUME NEW w \in Workers, TakeTurn(w) PROVE Installs
    BY <1>1 DEF TakeTurn, Goto, disk, Installs
  <1>2. ASSUME NEW w \in Workers, StartTool(w) PROVE Installs
    BY <1>2 DEF StartTool, Goto, disk, Installs
  <1>3. ASSUME NEW w \in Workers, LockForDownload(w) PROVE Installs
    BY <1>3 DEF LockForDownload, Goto, disk, Installs
  <1>4. ASSUME NEW w \in Workers, CheckFile(w) PROVE Installs
    BY <1>4 DEF CheckFile, Goto, disk, Installs
  <1>5. ASSUME NEW w \in Workers, EndAcquire(w) PROVE Installs
    BY <1>5 DEF EndAcquire, Goto, disk, Installs
  <1>6. ASSUME NEW w \in Workers, Request(w) PROVE Installs
    BY <1>6 DEF Request, Goto, disk, Installs
  <1>7. ASSUME NEW w \in Workers, RequestFails(w) PROVE Installs
    BY <1>7 DEF RequestFails, Fail, Return, Goto, disk, Installs
  <1>8. ASSUME NEW w \in Workers, OpenPart(w) PROVE Installs
    BY <1>8 DEF OpenPart, Goto, disk, Installs
  <1>9. ASSUME NEW w \in Workers, Copy(w) PROVE Installs
    BY <1>9 DEF Copy, Goto, disk, Installs
  <1>10. ASSUME NEW w \in Workers, CopyFails(w) PROVE Installs
    BY <1>10 DEF CopyFails, Fail, Return, Goto, disk, Installs
  <1>11. ASSUME NEW w \in Workers, Synced(w) PROVE Installs
    BY <1>11 DEF Synced, Goto, disk, Installs
  <1>12. ASSUME NEW w \in Workers, VerifyPart(w) PROVE Installs
    BY <1>12 DEF VerifyPart, Goto, disk, Installs
  <1>13. ASSUME NEW w \in Workers, RejectPart(w) PROVE Installs
    BY <1>13 DEF RejectPart, Fail, Return, Goto, disk, Installs
  <1>14. ASSUME NEW w \in Workers, RemoveCorrupt(w) PROVE Installs
    BY <1>14 DEF RemoveCorrupt, Goto, disk, Installs, WhereInv, DiskInv, PartInv
  <1>15. ASSUME NEW w \in Workers, Install(w) PROVE Installs
    BY <1>15 DEF Install, Goto, disk, Installs, WhereInv, DiskInv, PartInv
  <1>16. ASSUME NEW w \in Workers, InstallFails(w) PROVE Installs
    BY <1>16 DEF InstallFails, Fail, Return, Goto, disk, Installs
  <1>17. ASSUME NEW w \in Workers, LockForLoad(w) PROVE Installs
    BY <1>17 DEF LockForLoad, Goto, disk, Installs
  <1>18. ASSUME NEW w \in Workers, VerifyFile(w) PROVE Installs
    BY <1>18 DEF VerifyFile, Goto, disk, Installs
  <1>19. ASSUME NEW w \in Workers, VerifyFails(w) PROVE Installs
    BY <1>19 DEF VerifyFails, Fail, Return, Goto, disk, Installs
  <1>20. ASSUME NEW w \in Workers, ReadFile(w) PROVE Installs
    BY <1>20 DEF ReadFile, Goto, disk, Installs
  <1>21. ASSUME NEW w \in Workers, ReadFails(w) PROVE Installs
    BY <1>21 DEF ReadFails, Fail, Return, Goto, disk, Installs
  <1>22. ASSUME NEW w \in Workers, KeepModel(w) PROVE Installs
    BY <1>22 DEF KeepModel, Return, Goto, disk, Installs
  <1>23. ASSUME NEW w \in Workers, ToolDies(w) PROVE Installs
    BY <1>23 DEF ToolDies, Fail, Return, Goto, disk, Installs
  <1>24. ASSUME GcList PROVE Installs
    BY <1>24 DEF GcList, disk, Installs
  <1>25. ASSUME GcRemove PROVE Installs
    BY <1>25 DEF GcRemove, disk, Installs, WhereInv, DiskInv, PartInv
  <1>26. ASSUME OriginChanges PROVE Installs
    BY <1>26 DEF OriginChanges, disk, Installs
  <1>27. ASSUME ServerDies PROVE Installs
    BY <1>27 DEF ServerDies, disk, Installs
  <1>28. ASSUME CalmDown PROVE Installs
    BY <1>28 DEF CalmDown, disk, Installs
  <1> QED
    BY <1>0, <1>1, <1>2, <1>3, <1>4, <1>5, <1>6, <1>7, <1>8, <1>9, <1>10, <1>11, <1>12,
       <1>13, <1>14, <1>15, <1>16, <1>17, <1>18, <1>19, <1>20, <1>21, <1>22, <1>23,
       <1>24, <1>25, <1>26, <1>27, <1>28
       DEF Next, Download, Load

(* download_artifact: nothing but pinned bytes comes to the path of an     *)
(* artifact, whatever gc does after their verification.                    *)
THEOREM InstalledIsPinned == Spec => InstallsOnlyPinned
  <1>1. CacheInv /\ [Next]_vars => [Installs]_vars
    BY InstallsWell
  <1> QED
    BY <1>1, CacheAlways, PTL DEF Spec, InstallsOnlyPinned, Installs

=============================================================================
