---------------------------- MODULE Proxy_proofs ----------------------------
(***************************************************************************)
(* Proofs about the components of Server behind an agent's pane: the       *)
(* artifacts that agents leave, with the uploads into their directories,   *)
(* the texts that are typed into the pane, the launches, whose lines are   *)
(* typed there too, and the threads of what agents are sent and answer.    *)
(* Each is for every value of its constants that ServerAssumption allows.  *)
(***************************************************************************)
EXTENDS Server, WellFoundedInduction, FiniteSetTheorems, TLAPS

-----------------------------------------------------------------------------
(* Artifacts                                                               *)

ArtifactsType ==
    /\ pageDir \in [Slug -> (SUBSET Name) \cup {None}]
    /\ pageRow \in [Slug -> Nat \cup {None}]
    /\ storeFile \in [PageStore -> {"none", "small", "over"}]
    /\ artifactsTarget \in [Path -> {"none", "partial", "whole", "any"}]
    /\ told \in [Path -> {"ok", "failed", None}]
    /\ req \in [Req -> Files!Request \cup {None}]
    /\ artifactsRow \in Files!Row \cup {None}

(* The row of a thing says what is on disk; the page of an archive that is *)
(* being unpacked may be without one yet.                                  *)
PageMatches(s) ==
    IF pageDir[s] = None THEN pageRow[s] = None
    ELSE \/ pageRow[s] = Files!Cardinality(pageDir[s])
         \/ Files!Extracting(s) /\ pageDir[s] = {} /\ pageRow[s] = None
StoreMatches(s) == s \in storeRow <=> storeFile[s] # "none"
FileMatches(f) == f \in fileRow <=> f \in onDisk

(* That holds but for what is spoiled and for what has its row written     *)
(* next, with what is on disk.                                             *)
Settled(x) == x \notin artifactsSpoiled /\ (artifactsRow # None => artifactsRow.name # x)
RowsSettled ==
    /\ \A s \in Slug : Settled(s) => PageMatches(s)
    /\ \A s \in PageStore : Settled(s) => StoreMatches(s)
    /\ \A f \in FileId : Settled(f) => FileMatches(f)
RowIsTrue ==
    artifactsRow # None =>
        /\ artifactsRow.kind = "page" =>
              artifactsRow.value = (IF pageDir[artifactsRow.name] = None THEN None
                                    ELSE Files!Cardinality(pageDir[artifactsRow.name]))
        /\ artifactsRow.kind = "store" =>
              (artifactsRow.value = None <=> storeFile[artifactsRow.name] = "none")
        /\ artifactsRow.kind = "file" =>
              (artifactsRow.value = None <=> artifactsRow.name \notin onDisk)

(* While an upload runs its file is not whole, and any when two do.        *)
UploadsRun ==
    /\ \A p \in Path : told[p] = "ok" => artifactsTarget[p] \in {"whole", "any"}
    /\ \A r \in Req : req[r] # None /\ req[r].kind = "upload" =>
          /\ artifactsTarget[req[r].name] \in {"partial", "any"}
          /\ \A q \in Req : q # r /\ req[q] # None /\ req[q].kind = "upload"
                            /\ req[q].name = req[r].name => artifactsTarget[req[r].name] = "any"

ArtifactsInv == ArtifactsType /\ RowsSettled /\ RowIsTrue /\ UploadsRun

(* The facts about the constants that the proofs use.                      *)
LEMMA ArtifactsConstants ==
    /\ Slug \cap PageStore = {} /\ Slug \cap FileId = {} /\ PageStore \cap FileId = {}
    /\ None \notin Files!Request /\ None \notin Files!Row /\ None \notin SUBSET Name
    /\ None \notin {"ok", "failed"} /\ None # TRUE
  BY ServerAssumption DEF Files!ArtifactsAssumption

(* A page has finitely many files.                                         *)
LEMMA PageCount == ASSUME NEW S \in SUBSET Name PROVE Files!Cardinality(S) \in Nat
  <1>1. IsFiniteSet(Name)
    BY ServerAssumption DEF Files!ArtifactsAssumption, Files!IsFiniteSet, IsFiniteSet
  <1>2. Cardinality(S) \in Nat
    BY <1>1, FS_Subset, FS_CardinalityType
  <1> QED
    BY <1>2 DEF Files!Cardinality, Cardinality

(* A request that waits is one of four kinds, each with its own names.     *)
LEMMA RequestKinds ==
    ASSUME ArtifactsInv, NEW r \in Req, req[r] # None
    PROVE  /\ req[r] \in Files!Request
           /\ req[r].kind = "page" => req[r].name \in Slug
           /\ req[r].kind = "query" => req[r].name \in PageStore
           /\ req[r].kind = "upload" => req[r].name \in Path
           /\ req[r].at = "extract" => req[r].kind = "page"
           /\ req[r].at \in {"body", "extract"}
  BY DEF ArtifactsInv, ArtifactsType, Files!Request

(* A request that is answered is gone, and the others stay.                *)
LEMMA RespondStep ==
    ASSUME ArtifactsInv, NEW r \in Req, Files!Respond(r)
    PROVE  /\ req' \in [Req -> Files!Request \cup {None}]
           /\ req'[r] = None
           /\ \A q \in Req : q # r => req'[q] = req[q]
  BY DEF ArtifactsInv, ArtifactsType, Files!Respond

(* Uploads are as they were when only requests of other kinds come and go. *)
LEMMA OtherRequestStep ==
    ASSUME ArtifactsInv, UNCHANGED <<artifactsTarget, told>>,
           req' \in [Req -> Files!Request \cup {None}],
           \A q \in Req : req'[q] # None /\ req'[q].kind = "upload" => req'[q] = req[q]
    PROVE  UploadsRun'
  BY DEF ArtifactsInv, UploadsRun

(* The requests that unpack an archive into a page go on as they did.      *)
GoOn(S) == \A s \in S : Files!Extracting(s) => Files!Extracting(s)'

(* A request that ends leaves every other one as it was.                   *)
LEMMA GoOnWithout ==
    ASSUME ArtifactsInv, NEW r \in Req, req[r] # None, Files!Respond(r)
    PROVE  /\ GoOn({s \in Slug : req[r].name # s})
           /\ req[r].at # "extract" => GoOn(Slug)
  BY RespondStep DEF GoOn, Files!Extracting

(* A page is changed and its row is next: all else says what it said.      *)
LEMMA PageStep ==
    ASSUME ArtifactsInv, NEW s \in Slug, artifactsRow = None,
           NEW D \in (SUBSET Name) \cup {None},
           pageDir' = [pageDir EXCEPT ![s] = D],
           artifactsRow' = [kind |-> "page", name |-> s,
                            value |-> IF D = None THEN None ELSE Files!Cardinality(D)],
           UNCHANGED <<storeFile, onDisk, pageRow, storeRow, fileRow, artifactsSpoiled>>,
           GoOn(Slug \ {s})
    PROVE  /\ RowsSettled' /\ RowIsTrue'
           /\ pageDir' \in [Slug -> (SUBSET Name) \cup {None}]
           /\ artifactsRow' \in Files!Row
  <1> USE ArtifactsConstants DEF ArtifactsInv, ArtifactsType
  <1>1. pageDir' \in [Slug -> (SUBSET Name) \cup {None}]
    OBVIOUS
  <1>2. artifactsRow' \in Files!Row
    BY PageCount DEF Files!Row
  <1>3. pageDir'[s] = D /\ \A x \in Slug : x # s => pageDir'[x] = pageDir[x]
    OBVIOUS
  <1>4. artifactsRow' # None /\ artifactsRow'.name = s /\ artifactsRow'.kind = "page"
        /\ artifactsRow'.value = IF D = None THEN None ELSE Files!Cardinality(D)
    BY <1>2
  <1>5. RowIsTrue'
    BY <1>3, <1>4 DEF RowIsTrue
  <1>6. \A x \in Slug : Settled(x)' => x # s /\ Settled(x)
    BY <1>4 DEF Settled
  <1>7. \A x \in PageStore \cup FileId : Settled(x)' => Settled(x)
    BY DEF Settled
  <1>8. \A x \in Slug : x # s /\ PageMatches(x) => PageMatches(x)'
    <2>1. ASSUME NEW x \in Slug, x # s, PageMatches(x) PROVE PageMatches(x)'
      <3>1. pageDir'[x] = pageDir[x] /\ pageRow'[x] = pageRow[x]
        BY <1>3, <2>1
      <3>2. Files!Extracting(x) => Files!Extracting(x)'
        BY <2>1 DEF GoOn
      <3> QED
        BY <2>1, <3>1, <3>2 DEF PageMatches
    <2> QED
      BY <2>1
  <1>9. RowsSettled'
    BY <1>6, <1>7, <1>8 DEF RowsSettled, StoreMatches, FileMatches
  <1> QED
    BY <1>1, <1>2, <1>5, <1>9

(* What leaves disk, rows and unpacking as they are leaves them settled.   *)
LEMMA NothingKept ==
    ASSUME ArtifactsInv, GoOn(Slug),
           UNCHANGED <<pageDir, storeFile, onDisk, pageRow, storeRow, fileRow, artifactsRow,
                       artifactsSpoiled>>
    PROVE  RowsSettled' /\ RowIsTrue'
  <1>1. \A x \in Slug : PageMatches(x) => PageMatches(x)'
    BY DEF PageMatches, GoOn
  <1> QED
    BY <1>1 DEF ArtifactsInv, RowsSettled, RowIsTrue, StoreMatches, FileMatches, Settled

(* Requests that start.                                                    *)
LEMMA StartStep ==
    ASSUME ArtifactsInv, NEW r \in Req, NEW kind, NEW name, Files!Start(r, kind, name),
           [kind |-> kind, name |-> name, at |-> "body"] \in Files!Request
    PROVE  /\ req' \in [Req -> Files!Request \cup {None}]
           /\ req[r] = None /\ req'[r] = [kind |-> kind, name |-> name, at |-> "body"]
           /\ \A q \in Req : q # r => req'[q] = req[q]
           /\ RowsSettled' /\ RowIsTrue'
  <1>1. /\ req[r] = None
        /\ req' = [req EXCEPT ![r] = [kind |-> kind, name |-> name, at |-> "body"]]
    BY DEF Files!Start
  <1>2. /\ req' \in [Req -> Files!Request \cup {None}]
        /\ req'[r] = [kind |-> kind, name |-> name, at |-> "body"]
        /\ \A q \in Req : q # r => req'[q] = req[q]
    BY <1>1 DEF ArtifactsInv, ArtifactsType
  <1>3. GoOn(Slug)
    BY <1>1, <1>2 DEF GoOn, Files!Extracting
  <1>4. RowsSettled' /\ RowIsTrue'
    BY <1>3, NothingKept DEF Files!Start, Files!disk, Files!rows
  <1> QED
    BY <1>1, <1>2, <1>4

(* A request for a page, a query or an attachment starts with nothing written.*)
LEMMA StartOtherStep ==
    ASSUME ArtifactsInv, NEW r \in Req, UNCHANGED Files!uploads,
           \/ \E s \in Slug : Files!Start(r, "page", s)
           \/ \E s \in PageStore : Files!Start(r, "query", s)
           \/ Files!Start(r, "file", None)
    PROVE  ArtifactsInv'
  <1>1. PICK kind \in {"page", "query", "file"}, name \in Slug \cup PageStore \cup {None} :
           /\ Files!Start(r, kind, name)
           /\ [kind |-> kind, name |-> name, at |-> "body"] \in Files!Request
    BY DEF Files!Request
  <1>2. /\ req' \in [Req -> Files!Request \cup {None}]
        /\ req'[r] = [kind |-> kind, name |-> name, at |-> "body"]
        /\ \A q \in Req : q # r => req'[q] = req[q]
        /\ RowsSettled' /\ RowIsTrue'
    BY <1>1, StartStep
  <1>3. req'[r].kind # "upload"
    BY <1>2
  <1>4. UploadsRun'
    BY <1>2, <1>3, OtherRequestStep DEF Files!uploads
  <1>5. ArtifactsType'
    BY <1>1, <1>2 DEF ArtifactsInv, ArtifactsType, Files!Start, Files!disk, Files!rows, Files!uploads
  <1> QED
    BY <1>2, <1>4, <1>5 DEF ArtifactsInv

(* An upload that starts has the file partial, or any beside another.      *)
LEMMA StartUploadStep ==
    ASSUME ArtifactsInv, NEW r \in Req, NEW p \in Path, Files!StartUpload(r, p)
    PROVE  ArtifactsInv'
  <1> USE ArtifactsConstants
  <1>1. /\ Files!Start(r, "upload", p)
        /\ artifactsTarget' = [artifactsTarget EXCEPT ![p] =
                                  IF Files!Uploads(p) = {} THEN "partial" ELSE "any"]
        /\ told' = [told EXCEPT ![p] = None]
    BY DEF Files!StartUpload
  <1>2. [kind |-> "upload", name |-> p, at |-> "body"] \in Files!Request
    BY DEF Files!Request
  <1>3. /\ req' \in [Req -> Files!Request \cup {None}]
        /\ req[r] = None /\ req'[r] = [kind |-> "upload", name |-> p, at |-> "body"]
        /\ \A q \in Req : q # r => req'[q] = req[q]
        /\ RowsSettled' /\ RowIsTrue'
    BY <1>1, <1>2, StartStep
  <1>4. /\ artifactsTarget'[p] \in {"partial", "any"} /\ told'[p] = None
        /\ \A x \in Path : x # p => artifactsTarget'[x] = artifactsTarget[x] /\ told'[x] = told[x]
    BY <1>1 DEF ArtifactsInv, ArtifactsType
  <1>5. ASSUME NEW q \in Req, q # r, req[q] # None, req[q].kind = "upload", req[q].name = p
        PROVE  artifactsTarget'[p] = "any"
    <2>1. q \in Files!Uploads(p)
      BY <1>5 DEF Files!Uploads
    <2> QED
      BY <1>1, <2>1 DEF ArtifactsInv, ArtifactsType
  <1>6. \A x \in Path : told'[x] = "ok" => artifactsTarget'[x] \in {"whole", "any"}
    BY <1>4 DEF ArtifactsInv, UploadsRun
  <1>7. ASSUME NEW q \in Req, req'[q] # None, req'[q].kind = "upload"
        PROVE  /\ artifactsTarget'[req'[q].name] \in {"partial", "any"}
               /\ \A o \in Req : o # q /\ req'[o] # None /\ req'[o].kind = "upload"
                                 /\ req'[o].name = req'[q].name
                                 => artifactsTarget'[req'[q].name] = "any"
    <2>1. CASE req'[q].name = p
      <3>1. ASSUME NEW o \in Req, o # q, req'[o] # None, req'[o].kind = "upload", req'[o].name = p
            PROVE  artifactsTarget'[p] = "any"
        <4>1. CASE o = r
          BY <1>3, <1>5, <1>7, <2>1, <3>1, <4>1
        <4>2. CASE o # r
          BY <1>3, <1>5, <3>1, <4>2
        <4> QED
          BY <4>1, <4>2
      <3> QED
        BY <1>4, <2>1, <3>1
    <2>2. CASE req'[q].name # p
      <3>1. q # r /\ req[q] = req'[q]
        BY <1>3, <2>2
      <3>2. req[q].name \in Path
        BY <1>7, <3>1, RequestKinds
      <3>3. artifactsTarget'[req[q].name] = artifactsTarget[req[q].name]
        BY <1>4, <2>2, <3>1, <3>2
      <3>4. \A o \in Req : req'[o] # None /\ req'[o].name = req'[q].name => req[o] = req'[o]
        BY <1>3, <2>2
      <3> QED
        BY <1>7, <3>1, <3>3, <3>4 DEF ArtifactsInv, UploadsRun
    <2> QED
      BY <2>1, <2>2
  <1>8. UploadsRun'
    BY <1>6, <1>7 DEF UploadsRun
  <1>9. ArtifactsType'
    BY <1>1, <1>3 DEF ArtifactsInv, ArtifactsType, Files!Start, Files!disk, Files!rows
  <1> QED
    BY <1>3, <1>8, <1>9 DEF ArtifactsInv

(* An upload that ends changes its own file only, and answers for it.      *)
LEMMA UploadEndStep ==
    ASSUME ArtifactsInv, NEW r \in Req, Files!UploadEnds(r) \/ Files!UploadFails(r)
    PROVE  ArtifactsInv'
  <1> USE ArtifactsConstants
  <1> DEFINE p == req[r].name
  <1>1. req[r] # None /\ req[r].kind = "upload" /\ req[r].at = "body" /\ p \in Path
    BY RequestKinds DEF Files!UploadEnds, Files!UploadFails, Files!At
  <1>2. /\ req' \in [Req -> Files!Request \cup {None}]
        /\ req'[r] = None
        /\ \A q \in Req : q # r => req'[q] = req[q]
        /\ GoOn(Slug)
    BY <1>1, RespondStep, GoOnWithout DEF Files!UploadEnds, Files!UploadFails
  <1>3. /\ \E t \in {"none", "whole", "any"} :
              /\ artifactsTarget' = [artifactsTarget EXCEPT ![p] = t]
              /\ t = "any" <=> artifactsTarget[p] = "any"
              /\ \/ told' = [told EXCEPT ![p] = "ok"] /\ t # "none"
                 \/ told' = [told EXCEPT ![p] = "failed"]
        /\ UNCHANGED <<pageDir, storeFile, onDisk, pageRow, storeRow, fileRow, artifactsRow,
                       artifactsSpoiled>>
    <2>1. artifactsTarget[p] \in {"partial", "any"}
      BY <1>1 DEF ArtifactsInv, UploadsRun
    <2>2. CASE Files!UploadEnds(r)
      BY <2>1, <2>2 DEF Files!UploadEnds, Files!disk, Files!rows
    <2>3. CASE Files!UploadFails(r)
      BY <2>1, <2>3 DEF Files!UploadFails, Files!disk, Files!rows
    <2> QED
      BY <2>2, <2>3
  <1>4. /\ artifactsTarget' \in [Path -> {"none", "partial", "whole", "any"}]
        /\ told' \in [Path -> {"ok", "failed", None}]
        /\ told'[p] = "ok" => artifactsTarget'[p] \in {"whole", "any"}
        /\ artifactsTarget[p] = "any" => artifactsTarget'[p] = "any"
        /\ \A x \in Path : x # p => artifactsTarget'[x] = artifactsTarget[x] /\ told'[x] = told[x]
    BY <1>1, <1>3 DEF ArtifactsInv, ArtifactsType
  <1>5. ASSUME NEW q \in Req, req'[q] # None, req'[q].kind = "upload"
        PROVE  /\ artifactsTarget'[req'[q].name] \in {"partial", "any"}
               /\ \A o \in Req : o # q /\ req'[o] # None /\ req'[o].kind = "upload"
                                 /\ req'[o].name = req'[q].name
                                 => artifactsTarget'[req'[q].name] = "any"
    <2>1. q # r /\ req'[q] = req[q]
      BY <1>2, <1>5
    <2>2. req[q].name \in Path
      BY <1>5, <2>1, RequestKinds
    <2>3. CASE req[q].name = p
      BY <1>1, <1>4, <1>5, <2>1, <2>3 DEF ArtifactsInv, UploadsRun
    <2>4. CASE req[q].name # p
      <3>1. artifactsTarget'[req[q].name] = artifactsTarget[req[q].name]
        BY <1>4, <2>2, <2>4
      <3>2. \A o \in Req : req'[o] # None => req'[o] = req[o]
        BY <1>2
      <3> QED
        BY <1>5, <2>1, <3>1, <3>2 DEF ArtifactsInv, UploadsRun
    <2> QED
      BY <2>3, <2>4
  <1>6. \A x \in Path : told'[x] = "ok" => artifactsTarget'[x] \in {"whole", "any"}
    BY <1>4 DEF ArtifactsInv, UploadsRun
  <1>7. UploadsRun'
    BY <1>5, <1>6 DEF UploadsRun
  <1>8. RowsSettled' /\ RowIsTrue'
    BY <1>2, <1>3, NothingKept
  <1>9. ArtifactsType'
    BY <1>2, <1>3, <1>4 DEF ArtifactsInv, ArtifactsType
  <1> QED
    BY <1>7, <1>8, <1>9 DEF ArtifactsInv

(* A request that ends without a step on disk.                             *)
LEMMA AbortStep ==
    ASSUME ArtifactsInv, NEW r \in Req, Files!Abort(r)
    PROVE  ArtifactsInv'
  <1>1. req[r] # None /\ req[r].at = "body"
    BY DEF Files!Abort, Files!At
  <1>2. /\ Files!Respond(r)
        /\ UNCHANGED <<pageDir, storeFile, onDisk, pageRow, storeRow, fileRow, artifactsRow,
                       artifactsSpoiled, artifactsTarget, told>>
    BY DEF Files!Abort, Files!disk, Files!rows, Files!uploads
  <1>3. /\ req' \in [Req -> Files!Request \cup {None}] /\ GoOn(Slug)
        /\ \A q \in Req : req'[q] # None => req'[q] = req[q]
    BY <1>1, <1>2, RespondStep, GoOnWithout
  <1>4. UploadsRun'
    BY <1>2, <1>3, OtherRequestStep
  <1>5. RowsSettled' /\ RowIsTrue'
    BY <1>2, <1>3, NothingKept
  <1>6. ArtifactsType'
    BY <1>2, <1>3 DEF ArtifactsInv, ArtifactsType
  <1> QED
    BY <1>4, <1>5, <1>6 DEF ArtifactsInv

(* The files of a page grow: its row is next, with their number.           *)
LEMMA PublishStep ==
    ASSUME ArtifactsInv, NEW r \in Req, NEW s \in Slug, NEW new \in SUBSET Name,
           artifactsRow = None, req[r] # None, req[r].name = s,
           Files!Publish(s, new), Files!Respond(r),
           UNCHANGED <<storeFile, onDisk, Files!rows, Files!uploads, artifactsSpoiled>>
    PROVE  ArtifactsInv'
  <1> USE ArtifactsConstants
  <1> DEFINE D == Files!Made(s) \cup new
  <1>1. D \in SUBSET Name /\ D # None
    BY DEF Files!Made, ArtifactsInv, ArtifactsType
  <1>2. /\ pageDir' = [pageDir EXCEPT ![s] = D]
        /\ artifactsRow' = [kind |-> "page", name |-> s,
                            value |-> IF D = None THEN None ELSE Files!Cardinality(D)]
        /\ UNCHANGED <<storeFile, onDisk, pageRow, storeRow, fileRow, artifactsSpoiled,
                       artifactsTarget, told>>
    BY <1>1 DEF Files!Publish, Files!RowIsNext, Files!rows, Files!uploads
  <1>3. GoOn(Slug \ {s})
    BY GoOnWithout DEF GoOn
  <1>4. /\ req' \in [Req -> Files!Request \cup {None}]
        /\ \A q \in Req : req'[q] # None => req'[q] = req[q]
    BY RespondStep
  <1> HIDE DEF D
  <1>5. /\ RowsSettled' /\ RowIsTrue'
        /\ pageDir' \in [Slug -> (SUBSET Name) \cup {None}]
        /\ artifactsRow' \in Files!Row
    BY <1>1, <1>2, <1>3, PageStep
  <1>6. UploadsRun'
    BY <1>2, <1>4, OtherRequestStep
  <1>7. ArtifactsType'
    BY <1>2, <1>4, <1>5 DEF ArtifactsInv, ArtifactsType
  <1> QED
    BY <1>5, <1>6, <1>7 DEF ArtifactsInv

(* A page that changes has its row written next, or is spoiled.            *)
LEMMA PagesStep ==
    ASSUME ArtifactsInv, NEW r \in Req, artifactsRow = None,
           req[r] # None, req[r].at = "body", Files!Respond(r),
           pageDir' \in [Slug -> (SUBSET Name) \cup {None}],
           UNCHANGED <<storeFile, onDisk, Files!rows, Files!uploads>>,
           artifactsSpoiled \subseteq artifactsSpoiled',
           artifactsRow' \in Files!Row \cup {None}, RowIsTrue',
           \A x \in Slug : pageDir'[x] # pageDir[x] =>
               \/ x \in artifactsSpoiled'
               \/ artifactsRow' # None /\ artifactsRow'.name = x
    PROVE  ArtifactsInv'
  <1>1. UNCHANGED <<pageRow, storeRow, fileRow, artifactsTarget, told>>
    BY DEF Files!rows, Files!uploads
  <1>2. GoOn(Slug)
    BY GoOnWithout
  <1>3. \A x : Settled(x)' => Settled(x)
    BY DEF Settled
  <1>4. \A x \in Slug : Settled(x)' => pageDir'[x] = pageDir[x]
    BY DEF Settled
  <1>5. ASSUME NEW x \in Slug, Settled(x)' PROVE PageMatches(x)'
    <2>1. PageMatches(x) /\ pageDir'[x] = pageDir[x] /\ pageRow'[x] = pageRow[x]
      BY <1>1, <1>3, <1>4, <1>5 DEF ArtifactsInv, RowsSettled
    <2>2. Files!Extracting(x) => Files!Extracting(x)'
      BY <1>2 DEF GoOn
    <2> QED
      BY <2>1, <2>2 DEF PageMatches
  <1>6. RowsSettled'
    BY <1>1, <1>3, <1>5 DEF ArtifactsInv, RowsSettled, StoreMatches, FileMatches
  <1>7. /\ req' \in [Req -> Files!Request \cup {None}]
        /\ \A q \in Req : req'[q] # None => req'[q] = req[q]
    BY RespondStep
  <1>8. UploadsRun'
    BY <1>1, <1>7, OtherRequestStep
  <1>9. ArtifactsType'
    BY <1>1, <1>7 DEF ArtifactsInv, ArtifactsType
  <1> QED
    BY <1>6, <1>8, <1>9 DEF ArtifactsInv

(* A file that is not written leaves a spoiled page, or none that changed. *)
LEMMA UnwrittenStep ==
    ASSUME ArtifactsInv, NEW r \in Req, NEW s \in Slug, NEW more \in SUBSET Name,
           artifactsRow = None, req[r] # None, req[r].at = "body", Files!Respond(r),
           Files!Unwritten(s, more), UNCHANGED <<storeFile, onDisk, Files!rows, Files!uploads>>
    PROVE  ArtifactsInv'
  <1> USE ArtifactsConstants
  <1>1. Files!Made(s) \cup more \in SUBSET Name
    BY DEF Files!Made, ArtifactsInv, ArtifactsType
  <1>2. /\ pageDir' \in [Slug -> (SUBSET Name) \cup {None}]
        /\ pageDir'[s] = Files!Made(s) \cup more
        /\ \A x \in Slug : x # s => pageDir'[x] = pageDir[x]
    BY <1>1 DEF Files!Unwritten, ArtifactsInv, ArtifactsType
  <1>3. /\ artifactsRow' = None /\ artifactsSpoiled \subseteq artifactsSpoiled'
        /\ pageDir'[s] # pageDir[s] => s \in artifactsSpoiled'
    BY <1>2 DEF Files!Unwritten
  <1>4. RowIsTrue'
    BY <1>3 DEF RowIsTrue
  <1> QED
    BY <1>2, <1>3, <1>4, PagesStep

(* A file that strays spoils the page it is in; the other one is counted.  *)
LEMMA StraysStep ==
    ASSUME ArtifactsInv, NEW r \in Req, NEW s \in Slug, NEW t \in Slug, NEW n \in Name,
           artifactsRow = None, req[r] # None, req[r].at = "body", Files!Respond(r),
           Files!Strays(s, t, n), UNCHANGED <<storeFile, onDisk, Files!rows, Files!uploads>>
    PROVE  ArtifactsInv'
  <1> USE ArtifactsConstants
  <1>1. pageDir \in [Slug -> (SUBSET Name) \cup {None}]
    BY DEF ArtifactsInv, ArtifactsType
  <1>2. Files!Made(s) \in SUBSET Name /\ Files!Made(s) # None
    BY <1>1 DEF Files!Made
  <1>3. pageDir[t] \cup {n} \in SUBSET Name
    BY <1>1 DEF Files!Strays
  <1>4. pageDir' = [pageDir EXCEPT ![s] = Files!Made(s), ![t] = @ \cup {n}] /\ t # s
    BY DEF Files!Strays
  <1>5. /\ pageDir' \in [Slug -> (SUBSET Name) \cup {None}]
        /\ pageDir'[s] = Files!Made(s) /\ pageDir'[t] = pageDir[t] \cup {n}
        /\ \A x \in Slug : x # s /\ x # t => pageDir'[x] = pageDir[x]
    BY <1>1, <1>2, <1>3, <1>4
  <1>6. artifactsRow' = [kind |-> "page", name |-> s,
                         value |-> Files!Cardinality(Files!Made(s))]
    BY DEF Files!Strays, Files!RowIsNext
  <1>7. artifactsRow' \in Files!Row
    BY <1>2, <1>6, PageCount DEF Files!Row
  <1>8. artifactsRow' # None /\ artifactsRow'.name = s /\ RowIsTrue'
    BY <1>2, <1>5, <1>6, <1>7 DEF RowIsTrue
  <1>9. /\ artifactsSpoiled \subseteq artifactsSpoiled'
        /\ pageDir'[t] # pageDir[t] => t \in artifactsSpoiled'
    <2>1. n \in pageDir[t] => pageDir[t] \cup {n} = pageDir[t]
      OBVIOUS
    <2> QED
      BY <1>5, <2>1 DEF Files!Strays
  <1> QED
    BY <1>5, <1>7, <1>8, <1>9, PagesStep

(* A single file is written, is not, or strays into another page.          *)
LEMMA PublishFileStep ==
    ASSUME ArtifactsInv, NEW r \in Req, Files!PublishFile(r)
    PROVE  ArtifactsInv'
  <1>1. PICK s : s = req[r].name
    OBVIOUS
  <1>2. /\ req[r] # None /\ req[r].kind = "page" /\ req[r].at = "body" /\ artifactsRow = None
        /\ Files!Respond(r) /\ UNCHANGED <<storeFile, onDisk, Files!rows, Files!uploads>>
    BY DEF Files!PublishFile, Files!At
  <1>3. s \in Slug
    BY <1>1, <1>2, RequestKinds
  <1>4. \/ \E n \in Name : Files!Publish(s, {n}) /\ UNCHANGED artifactsSpoiled
        \/ \E more \in {{}} \cup {{n} : n \in Name} : Files!Unwritten(s, more)
        \/ \E t \in Slug, n \in Name : Files!Strays(s, t, n)
    BY <1>1 DEF Files!PublishFile
  <1>5. CASE \E n \in Name : Files!Publish(s, {n}) /\ UNCHANGED artifactsSpoiled
    BY <1>1, <1>2, <1>3, <1>5, PublishStep
  <1>6. CASE \E more \in {{}} \cup {{n} : n \in Name} : Files!Unwritten(s, more)
    BY <1>2, <1>3, <1>6, UnwrittenStep
  <1>7. CASE \E t \in Slug, n \in Name : Files!Strays(s, t, n)
    BY <1>2, <1>3, <1>7, StraysStep
  <1> QED
    BY <1>4, <1>5, <1>6, <1>7

(* Deleting a page empties its directory, and its row is next.             *)
LEMMA DeletePageStep ==
    ASSUME ArtifactsInv, NEW s \in Slug, Files!DeletePage(s)
    PROVE  ArtifactsInv'
  <1> USE ArtifactsConstants
  <1>1. /\ artifactsRow = None /\ pageDir' = [pageDir EXCEPT ![s] = None]
        /\ artifactsRow' = [kind |-> "page", name |-> s, value |-> None]
        /\ UNCHANGED <<storeFile, onDisk, pageRow, storeRow, fileRow, artifactsSpoiled,
                       artifactsTarget, told, req>>
    BY DEF Files!DeletePage, Files!AtOnce, Files!RowIsNext, Files!rows, Files!uploads
  <1>2. GoOn(Slug \ {s})
    BY <1>1 DEF GoOn, Files!Extracting
  <1>3. /\ RowsSettled' /\ RowIsTrue'
        /\ pageDir' \in [Slug -> (SUBSET Name) \cup {None}]
        /\ artifactsRow' \in Files!Row
    BY <1>1, <1>2, PageStep
  <1>4. UploadsRun'
    BY <1>1, OtherRequestStep DEF ArtifactsInv, ArtifactsType
  <1>5. ArtifactsType'
    BY <1>1, <1>3 DEF ArtifactsInv, ArtifactsType
  <1> QED
    BY <1>3, <1>4, <1>5 DEF ArtifactsInv

(* An archive: its directory is made, and its request unpacks from now on. *)
LEMMA PublishTarStep ==
    ASSUME ArtifactsInv, NEW r \in Req, Files!PublishTar(r)
    PROVE  ArtifactsInv'
  <1> USE ArtifactsConstants
  <1>0. req[r] # None /\ req[r].kind = "page" /\ req[r].name \in Slug /\ artifactsRow = None
    BY RequestKinds DEF Files!PublishTar, Files!At
  <1>1. PICK s \in Slug : s = req[r].name
    BY <1>0
  <1>2. /\ pageDir' = [pageDir EXCEPT ![s] = Files!Made(s)]
        /\ req' = [req EXCEPT ![r].at = "extract"]
        /\ UNCHANGED <<storeFile, onDisk, pageRow, storeRow, fileRow, artifactsRow,
                       artifactsSpoiled, artifactsTarget, told>>
    BY <1>0, <1>1 DEF Files!PublishTar, Files!rows, Files!uploads
  <1>3. req[r] \in Files!Request
    BY <1>0, <1>1, RequestKinds
  <1>4. [req[r] EXCEPT !.at = "extract"] = [kind |-> "page", name |-> s, at |-> "extract"]
    BY <1>0, <1>1, <1>3 DEF Files!Request
  <1>5. [kind |-> "page", name |-> s, at |-> "extract"] \in Files!Request
    BY <1>0, <1>1 DEF Files!Request
  <1>6. req' = [req EXCEPT ![r] = [req[r] EXCEPT !.at = "extract"]]
    BY <1>2
  <1>7. /\ req' \in [Req -> Files!Request \cup {None}]
        /\ req'[r] = [kind |-> "page", name |-> s, at |-> "extract"]
        /\ \A q \in Req : q # r => req'[q] = req[q]
    BY <1>4, <1>5, <1>6 DEF ArtifactsInv, ArtifactsType
  <1>8. GoOn(Slug) /\ Files!Extracting(s)'
    <2>1. req'[r] # None
      BY <1>5, <1>7
    <2>2. Files!Extracting(s)'
      BY <1>7, <2>1 DEF Files!Extracting
    <2>3. ASSUME NEW x \in Slug, Files!Extracting(x) PROVE Files!Extracting(x)'
      <3>1. PICK q \in Req : req[q] # None /\ req[q].at = "extract" /\ req[q].name = x
        BY <2>3 DEF Files!Extracting
      <3>2. req'[q] # None /\ req'[q].at = "extract" /\ req'[q].name = x
        BY <1>1, <1>7, <2>1, <3>1
      <3> QED
        BY <3>2 DEF Files!Extracting
    <2> QED
      BY <2>2, <2>3 DEF GoOn
  <1>9. /\ Files!Made(s) \in SUBSET Name
        /\ pageDir' \in [Slug -> (SUBSET Name) \cup {None}]
        /\ pageDir'[s] = Files!Made(s)
        /\ \A x \in Slug : x # s => pageDir'[x] = pageDir[x]
    BY <1>0, <1>1, <1>2 DEF Files!Made, ArtifactsInv, ArtifactsType
  <1>10. \A x \in Slug : PageMatches(x) => PageMatches(x)'
    <2>1. ASSUME NEW x \in Slug, x # s, PageMatches(x) PROVE PageMatches(x)'
      BY <1>2, <1>8, <1>9, <2>1 DEF PageMatches, GoOn
    <2>2. ASSUME PageMatches(s) PROVE PageMatches(s)'
      <3>1. CASE pageDir[s] = None
        BY <1>2, <1>8, <1>9, <2>2, <3>1 DEF PageMatches, Files!Made
      <3>2. CASE pageDir[s] # None
        <4>1. pageDir'[s] = pageDir[s] /\ pageRow'[s] = pageRow[s]
          BY <1>2, <1>9, <3>2 DEF Files!Made
        <4> QED
          BY <1>8, <2>2, <3>2, <4>1 DEF PageMatches
      <3> QED
        BY <3>1, <3>2
    <2> QED
      BY <2>1, <2>2
  <1>11. RowsSettled' /\ RowIsTrue'
    <2>1. RowIsTrue'
      BY <1>0, <1>1, <1>2 DEF RowIsTrue
    <2>2. \A x : Settled(x)' => Settled(x)
      BY <1>2 DEF Settled
    <2>3. \A x \in PageStore : StoreMatches(x) => StoreMatches(x)'
      BY <1>2 DEF StoreMatches
    <2>4. \A x \in FileId : FileMatches(x) => FileMatches(x)'
      BY <1>2 DEF FileMatches
    <2> QED
      BY <1>0, <1>10, <2>1, <2>2, <2>3, <2>4 DEF ArtifactsInv, RowsSettled
  <1>12. UploadsRun'
    <2>1. req'[r].kind # "upload"
      BY <1>7
    <2> QED
      BY <1>2, <1>7, <2>1, OtherRequestStep
  <1>13. ArtifactsType'
    BY <1>2, <1>7, <1>9 DEF ArtifactsInv, ArtifactsType
  <1> QED
    BY <1>0, <1>11, <1>12, <1>13 DEF ArtifactsInv

(* A broken archive changes a page whose row nobody writes: it is spoiled. *)
LEMMA ExtractStep ==
    ASSUME ArtifactsInv, NEW r \in Req, Files!Extract(r)
    PROVE  ArtifactsInv'
  <1> USE ArtifactsConstants
  <1>0. req[r] # None /\ req[r].kind = "page" /\ req[r].name \in Slug /\ artifactsRow = None
    BY RequestKinds DEF Files!Extract, Files!At
  <1>1. PICK s \in Slug : s = req[r].name
    BY <1>0
  <1>2. /\ Files!Respond(r)
        /\ UNCHANGED <<storeFile, onDisk, pageRow, storeRow, fileRow, artifactsTarget, told>>
    BY DEF Files!Extract, Files!rows, Files!uploads
  <1>3. /\ req' \in [Req -> Files!Request \cup {None}]
        /\ \A q \in Req : req'[q] # None => req'[q] = req[q]
    BY <1>2, RespondStep
  <1>4. GoOn(Slug \ {s})
    BY <1>0, <1>1, <1>2, GoOnWithout DEF GoOn
  <1>5. CASE \E new \in SUBSET Name : Files!Publish(s, new) /\ UNCHANGED artifactsSpoiled
    BY <1>0, <1>1, <1>2, <1>5, PublishStep DEF Files!rows, Files!uploads
  <1>6. ASSUME NEW D \in (SUBSET Name) \cup {None}, pageDir' = [pageDir EXCEPT ![s] = D],
               UNCHANGED artifactsRow,
               \/ D = None /\ pageDir[s] = None /\ UNCHANGED artifactsSpoiled
               \/ artifactsSpoiled' = artifactsSpoiled \cup {s}
        PROVE  ArtifactsInv'
    <2>1. /\ pageDir' \in [Slug -> (SUBSET Name) \cup {None}]
          /\ pageDir'[s] = D
          /\ \A x \in Slug : x # s => pageDir'[x] = pageDir[x]
      BY <1>0, <1>1, <1>6 DEF ArtifactsInv, ArtifactsType
    <2>2. \A x \in Slug : x # s /\ PageMatches(x) => PageMatches(x)'
      <3>1. ASSUME NEW x \in Slug, x # s, PageMatches(x) PROVE PageMatches(x)'
        <4>1. pageDir'[x] = pageDir[x] /\ pageRow'[x] = pageRow[x]
          BY <1>2, <2>1, <3>1
        <4>2. Files!Extracting(x) => Files!Extracting(x)'
          BY <1>4, <3>1 DEF GoOn
        <4> QED
          BY <3>1, <4>1, <4>2 DEF PageMatches
      <3> QED
        BY <3>1
    <2>3. Settled(s)' /\ PageMatches(s) => PageMatches(s)'
      <3>1. CASE D = None /\ pageDir[s] = None
        BY <1>2, <2>1, <3>1 DEF PageMatches
      <3>2. CASE artifactsSpoiled' = artifactsSpoiled \cup {s}
        BY <3>2 DEF Settled
      <3> QED
        BY <1>6, <3>1, <3>2
    <2>4. \A x : Settled(x)' => Settled(x)
      BY <1>6 DEF Settled
    <2>5. \A x \in PageStore : StoreMatches(x) => StoreMatches(x)'
      BY <1>2 DEF StoreMatches
    <2>6. \A x \in FileId : FileMatches(x) => FileMatches(x)'
      BY <1>2 DEF FileMatches
    <2>7. \A x \in Slug : Settled(x)' => PageMatches(x)'
      BY <2>2, <2>3, <2>4 DEF ArtifactsInv, RowsSettled
    <2>8. RowsSettled'
      BY <2>4, <2>5, <2>6, <2>7 DEF ArtifactsInv, RowsSettled
    <2>9. RowIsTrue'
      BY <1>0, <1>1, <1>6 DEF RowIsTrue
    <2>10. UploadsRun'
      BY <1>2, <1>3, OtherRequestStep
    <2>11. ArtifactsType'
      BY <1>2, <1>3, <1>6, <2>1 DEF ArtifactsInv, ArtifactsType
    <2> QED
      BY <2>8, <2>9, <2>10, <2>11 DEF ArtifactsInv
  <1>7. CASE pageDir[s] = None /\ UNCHANGED <<pageDir, artifactsRow, artifactsSpoiled>>
    <2>1. pageDir' = [pageDir EXCEPT ![s] = None]
      BY <1>0, <1>1, <1>7 DEF ArtifactsInv, ArtifactsType
    <2> QED
      BY <1>6, <1>7, <2>1
  <1>8. ASSUME NEW new \in SUBSET Name, pageDir[s] # None,
               pageDir' = [pageDir EXCEPT ![s] = @ \cup new],
               artifactsSpoiled' = artifactsSpoiled \cup {s}, UNCHANGED artifactsRow
        PROVE  ArtifactsInv'
    <2>1. pageDir[s] \cup new \in SUBSET Name
      BY <1>0, <1>1, <1>8 DEF ArtifactsInv, ArtifactsType
    <2> QED
      BY <1>6, <1>8, <2>1
  <1> QED
    BY <1>1, <1>5, <1>7, <1>8 DEF Files!Extract

(* The rows that are written for a store and for a file.                   *)
LEMMA RowOfStore ==
    ASSUME NEW s \in PageStore, NEW v \in {TRUE, None}
    PROVE  [kind |-> "store", name |-> s, value |-> v] \in Files!Row
  <1>1. \A V : v \in V => [kind |-> "store", name |-> s, value |-> v]
                             \in [kind : {"store"}, name : PageStore, value : V]
    OBVIOUS
  <1> QED
    BY <1>1, Zenon DEF Files!Row

(* The row an attachment waits for is one of the rows.                     *)
LEMMA RowOfFile ==
    ASSUME NEW f \in FileId, NEW v \in {TRUE, None}
    PROVE  [kind |-> "file", name |-> f, value |-> v] \in Files!Row
  <1>1. \A V : v \in V => [kind |-> "file", name |-> f, value |-> v]
                             \in [kind : {"file"}, name : FileId, value : V]
    OBVIOUS
  <1> QED
    BY <1>1, Zenon DEF Files!Row

(* Stores: the file is made or removed and its row is next, or a statement *)
(* changes what is in a file that exists.                                  *)
LEMMA StoreStep ==
    ASSUME ArtifactsInv, NEW s \in PageStore, Files!CreateStore(s) \/ Files!DeleteStore(s)
    PROVE  ArtifactsInv'
  <1> USE ArtifactsConstants
  <1>1. /\ artifactsRow = None
        /\ \E z \in {"none", "small", "over"} :
              /\ storeFile' = [storeFile EXCEPT ![s] = z]
              /\ artifactsRow' = [kind |-> "store", name |-> s,
                                  value |-> IF z = "none" THEN None ELSE TRUE]
        /\ UNCHANGED <<pageDir, onDisk, pageRow, storeRow, fileRow, artifactsSpoiled,
                       artifactsTarget, told, req>>
    BY DEF Files!CreateStore, Files!DeleteStore, Files!AtOnce, Files!RowIsNext, Files!rows,
           Files!uploads, ArtifactsInv, ArtifactsType
  <1>2. PICK z \in {"none", "small", "over"}, v \in {TRUE, None} :
              /\ v = None <=> z = "none"
              /\ storeFile' = [storeFile EXCEPT ![s] = z]
              /\ artifactsRow' = [kind |-> "store", name |-> s, value |-> v]
    BY <1>1, Zenon
  <1>3. /\ storeFile' \in [PageStore -> {"none", "small", "over"}] /\ storeFile'[s] = z
        /\ \A x \in PageStore : x # s => storeFile'[x] = storeFile[x]
    BY <1>2 DEF ArtifactsInv, ArtifactsType
  <1>4. artifactsRow' \in Files!Row /\ artifactsRow' # None
    BY <1>2, RowOfStore
  <1>5. /\ artifactsRow'.kind = "store" /\ artifactsRow'.name = s
        /\ artifactsRow'.value = None <=> z = "none"
    BY <1>2
  <1>6. RowIsTrue'
    BY <1>3, <1>5 DEF RowIsTrue
  <1>7. \A x : Settled(x)' => x # s /\ Settled(x)
    BY <1>1, <1>4, <1>5 DEF Settled
  <1>8. \A x \in Slug : PageMatches(x) => PageMatches(x)'
    BY <1>1 DEF PageMatches, Files!Extracting
  <1>9. \A x \in PageStore : x # s /\ StoreMatches(x) => StoreMatches(x)'
    BY <1>1, <1>3 DEF StoreMatches
  <1>10. \A x \in FileId : FileMatches(x) => FileMatches(x)'
    BY <1>1 DEF FileMatches
  <1>11. RowsSettled'
    BY <1>7, <1>8, <1>9, <1>10 DEF RowsSettled, ArtifactsInv
  <1>12. UploadsRun'
    BY <1>1, OtherRequestStep DEF ArtifactsInv, ArtifactsType
  <1>13. ArtifactsType'
    BY <1>1, <1>3, <1>4 DEF ArtifactsInv, ArtifactsType
  <1> QED
    BY <1>6, <1>11, <1>12, <1>13 DEF ArtifactsInv

(* A query may fill the file of its store, and changes no row.             *)
LEMMA RunQueryStep ==
    ASSUME ArtifactsInv, NEW r \in Req, Files!RunQuery(r)
    PROVE  ArtifactsInv'
  <1>1. /\ req[r] # None /\ req[r].at = "body" /\ req[r].name \in PageStore /\ artifactsRow = None
    BY RequestKinds DEF Files!RunQuery, Files!At
  <1>2. PICK s \in PageStore : s = req[r].name
    BY <1>1
  <1>3. /\ Files!Respond(r)
        /\ UNCHANGED <<pageDir, onDisk, pageRow, storeRow, fileRow, artifactsRow,
                       artifactsSpoiled, artifactsTarget, told>>
        /\ \/ UNCHANGED storeFile
           \/ /\ storeFile[s] # "none"
              /\ \E z \in {"over", storeFile[s]} : storeFile' = [storeFile EXCEPT ![s] = z]
    BY <1>2 DEF Files!RunQuery, Files!RunOn, Files!rows, Files!uploads
  <1>4. /\ storeFile' \in [PageStore -> {"none", "small", "over"}]
        /\ \A x \in PageStore : storeFile'[x] = "none" <=> storeFile[x] = "none"
    BY <1>3 DEF ArtifactsInv, ArtifactsType
  <1>5. /\ req' \in [Req -> Files!Request \cup {None}] /\ GoOn(Slug)
        /\ \A q \in Req : req'[q] # None => req'[q] = req[q]
    BY <1>1, <1>3, RespondStep, GoOnWithout
  <1>6. \A x \in Slug : PageMatches(x) => PageMatches(x)'
    BY <1>3, <1>5 DEF PageMatches, GoOn
  <1>7. \A x \in PageStore : StoreMatches(x) => StoreMatches(x)'
    BY <1>3, <1>4 DEF StoreMatches
  <1>8. \A x \in FileId : FileMatches(x) => FileMatches(x)'
    BY <1>3 DEF FileMatches
  <1>9. RowsSettled'
    BY <1>3, <1>6, <1>7, <1>8 DEF RowsSettled, Settled, ArtifactsInv
  <1>10. RowIsTrue'
    BY <1>1, <1>3 DEF RowIsTrue
  <1>11. UploadsRun'
    BY <1>3, <1>5, OtherRequestStep
  <1>12. ArtifactsType'
    BY <1>3, <1>4, <1>5 DEF ArtifactsInv, ArtifactsType
  <1> QED
    BY <1>9, <1>10, <1>11, <1>12 DEF ArtifactsInv

(* A file is put on disk or removed, and its row is next.                  *)
LEMMA FileStep ==
    ASSUME ArtifactsInv,
           \/ \E r \in Req : Files!AddFile(r)
           \/ \E f \in FileId : Files!DeleteFile(f)
    PROVE  ArtifactsInv'
  <1> USE ArtifactsConstants
  <1>1. PICK f \in FileId, v \in {TRUE, None} :
           /\ artifactsRow = None
           /\ onDisk' = IF v = None THEN onDisk \ {f} ELSE onDisk \cup {f}
           /\ artifactsRow' = [kind |-> "file", name |-> f, value |-> v]
           /\ UNCHANGED <<pageDir, storeFile, pageRow, storeRow, fileRow, artifactsSpoiled,
                          artifactsTarget, told>>
    BY DEF Files!AddFile, Files!DeleteFile, Files!At, Files!AtOnce, Files!RowIsNext, Files!rows,
           Files!uploads
  <1>2. /\ req' \in [Req -> Files!Request \cup {None}] /\ GoOn(Slug)
        /\ \A q \in Req : req'[q] # None => req'[q] = req[q]
    <2>1. CASE \E g \in FileId : Files!DeleteFile(g)
      BY <2>1 DEF Files!DeleteFile, Files!AtOnce, GoOn, Files!Extracting, ArtifactsInv,
                  ArtifactsType
    <2>2. ASSUME NEW r \in Req, Files!AddFile(r)
          PROVE  <1>2!:
      <3>1. req[r] # None /\ req[r].at = "body" /\ Files!Respond(r)
        BY <2>2 DEF Files!AddFile, Files!At
      <3> QED
        BY <3>1, RespondStep, GoOnWithout
    <2> QED
      BY <2>1, <2>2
  <1>3. artifactsRow' \in Files!Row /\ artifactsRow' # None
    BY <1>1, RowOfFile
  <1>4. /\ artifactsRow'.kind = "file" /\ artifactsRow'.name = f
        /\ artifactsRow'.value = None <=> f \notin onDisk'
        /\ \A x : x # f => (x \in onDisk' <=> x \in onDisk)
    BY <1>1
  <1>5. RowIsTrue'
    BY <1>4 DEF RowIsTrue
  <1>6. \A x : Settled(x)' => x # f /\ Settled(x)
    BY <1>1, <1>3, <1>4 DEF Settled
  <1>7. \A x \in Slug : PageMatches(x) => PageMatches(x)'
    BY <1>1, <1>2 DEF PageMatches, GoOn
  <1>8. \A x \in PageStore : StoreMatches(x) => StoreMatches(x)'
    BY <1>1 DEF StoreMatches
  <1>9. \A x \in FileId : x # f /\ FileMatches(x) => FileMatches(x)'
    BY <1>1, <1>4 DEF FileMatches
  <1>10. RowsSettled'
    BY <1>6, <1>7, <1>8, <1>9 DEF RowsSettled, ArtifactsInv
  <1>11. UploadsRun'
    BY <1>1, <1>2, OtherRequestStep
  <1>12. ArtifactsType'
    BY <1>1, <1>2, <1>3 DEF ArtifactsInv, ArtifactsType
  <1> QED
    BY <1>5, <1>10, <1>11, <1>12 DEF ArtifactsInv

(* The row that is written says what is on disk.                           *)
LEMMA WriteRowStep ==
    ASSUME ArtifactsInv, Files!WriteRow
    PROVE  ArtifactsInv'
  <1> USE ArtifactsConstants
  <1>1. PICK n, v : n = artifactsRow.name /\ v = artifactsRow.value
    OBVIOUS
  <1>2. /\ artifactsRow # None /\ artifactsRow \in Files!Row
        /\ \/ artifactsRow.kind = "page" /\ n \in Slug /\ v \in Nat \cup {None}
           \/ artifactsRow.kind = "store" /\ n \in PageStore
           \/ artifactsRow.kind = "file" /\ n \in FileId
    BY <1>1 DEF Files!WriteRow, Files!Row, ArtifactsInv, ArtifactsType
  <1>3. /\ artifactsRow' = None /\ artifactsSpoiled' = artifactsSpoiled \ {n}
        /\ pageRow' = IF artifactsRow.kind = "page" THEN [pageRow EXCEPT ![n] = v] ELSE pageRow
        /\ storeRow' = IF artifactsRow.kind = "store"
                       THEN IF v = None THEN storeRow \ {n} ELSE storeRow \cup {n} ELSE storeRow
        /\ fileRow' = IF artifactsRow.kind = "file"
                      THEN IF v = None THEN fileRow \ {n} ELSE fileRow \cup {n} ELSE fileRow
        /\ UNCHANGED <<pageDir, storeFile, onDisk, artifactsTarget, told, req>>
    BY <1>1 DEF Files!WriteRow, Files!Changed, Files!disk, Files!uploads
  <1>4. \A x : Settled(x)' => x = n \/ Settled(x)
    BY <1>1, <1>3 DEF Settled
  <1>5. \A x \in Slug : PageMatches(x)' <=>
            IF pageDir[x] = None THEN pageRow'[x] = None
            ELSE \/ pageRow'[x] = Files!Cardinality(pageDir[x])
                 \/ Files!Extracting(x) /\ pageDir[x] = {} /\ pageRow'[x] = None
    BY <1>3 DEF PageMatches, Files!Extracting
  <1>6. \A x \in Slug : Settled(x)' => PageMatches(x)'
    <2>1. ASSUME NEW x \in Slug, x # n, Settled(x)' PROVE PageMatches(x)'
      <3>1. PageMatches(x) /\ pageRow'[x] = pageRow[x]
        BY <1>2, <1>3, <1>4, <2>1 DEF ArtifactsInv, ArtifactsType, RowsSettled
      <3> QED
        BY <1>5, <3>1 DEF PageMatches
    <2>2. ASSUME n \in Slug PROVE PageMatches(n)'
      <3>1. artifactsRow.kind = "page"
        BY <1>2, <2>2
      <3>2. pageRow'[n] = v
        BY <1>3, <2>2, <3>1 DEF ArtifactsInv, ArtifactsType
      <3>3. v = IF pageDir[n] = None THEN None ELSE Files!Cardinality(pageDir[n])
        BY <1>1, <1>2, <3>1 DEF ArtifactsInv, RowIsTrue
      <3> QED
        BY <1>5, <2>2, <3>2, <3>3
    <2> QED
      BY <2>1, <2>2
  <1>7. \A x \in PageStore : Settled(x)' => StoreMatches(x)'
    BY <1>1, <1>2, <1>3, <1>4 DEF ArtifactsInv, RowsSettled, RowIsTrue, StoreMatches
  <1>8. \A x \in FileId : Settled(x)' => FileMatches(x)'
    BY <1>1, <1>2, <1>3, <1>4 DEF ArtifactsInv, RowsSettled, RowIsTrue, FileMatches
  <1>9. RowsSettled' /\ RowIsTrue'
    BY <1>3, <1>6, <1>7, <1>8 DEF RowsSettled, RowIsTrue
  <1>10. UploadsRun'
    BY <1>3, OtherRequestStep DEF ArtifactsInv, ArtifactsType
  <1>11. ArtifactsType'
    BY <1>2, <1>3 DEF ArtifactsInv, ArtifactsType
  <1> QED
    BY <1>9, <1>10, <1>11 DEF ArtifactsInv

(* A crash spoils what has no row yet, and ends all requests.              *)
LEMMA CrashStep ==
    ASSUME ArtifactsInv, Files!Crash
    PROVE  ArtifactsInv'
  <1> USE ArtifactsConstants
  <1>1. /\ \A r \in Req : req'[r] = None
        /\ artifactsRow' = None
        /\ artifactsSpoiled' = artifactsSpoiled
              \cup (IF artifactsRow = None THEN {} ELSE {artifactsRow.name})
              \cup {s \in Slug : Files!Extracting(s)}
        /\ \A p \in Path : \/ artifactsTarget'[p] = artifactsTarget[p]
                           \/ artifactsTarget'[p] = "none" /\ artifactsTarget[p] = "partial"
        /\ UNCHANGED <<pageDir, storeFile, onDisk, pageRow, storeRow, fileRow, told>>
    <2>1. \A p \in Path : \/ artifactsTarget'[p] = artifactsTarget[p]
                          \/ artifactsTarget'[p] = "none" /\ artifactsTarget[p] = "partial"
      BY DEF Files!Crash
    <2>2. \A r \in Req : req'[r] = None
      BY DEF Files!Crash, Files!Idle
    <2> QED
      BY <2>1, <2>2 DEF Files!Crash, Files!disk, Files!rows
  <1>2. \A x : Settled(x)' => Settled(x) /\ (x \in Slug => ~Files!Extracting(x))
    BY <1>1 DEF Settled
  <1>3. \A x \in Slug : PageMatches(x) /\ ~Files!Extracting(x) => PageMatches(x)'
    BY <1>1 DEF PageMatches
  <1>4. RowsSettled'
    BY <1>1, <1>2, <1>3 DEF ArtifactsInv, RowsSettled, StoreMatches, FileMatches
  <1>5. RowIsTrue' /\ UploadsRun'
    BY <1>1 DEF ArtifactsInv, RowIsTrue, UploadsRun
  <1>6. ArtifactsType'
    <2>1. artifactsTarget' \in [Path -> {"none", "partial", "whole", "any"}]
      BY DEF Files!Crash, ArtifactsInv, ArtifactsType
    <2>2. req' \in [Req -> Files!Request \cup {None}]
      BY DEF Files!Crash, Files!Idle
    <2> QED
      BY <1>1, <2>1, <2>2 DEF ArtifactsInv, ArtifactsType
  <1> QED
    BY <1>4, <1>5, <1>6 DEF ArtifactsInv

(* What the server says it keeps is there (KeptWhole), whatever requests,  *)
(* uploads and crashes overlap (routes.ts:1306-1803, proxy/main.ts:288-348). *)
THEOREM ArtifactsAreKept == ServerSpec => []KeptWhole
  <1> DEFINE Inv == part = "artifacts" => ArtifactsInv
  <1>1. ServerInit => Inv
    <2> SUFFICES ASSUME Files!Init PROVE ArtifactsInv
      BY DEF ServerInit
    <2> USE ArtifactsConstants
    <2>1. /\ \A s \in Slug : pageDir[s] = None /\ pageRow[s] = None
          /\ \A s \in PageStore : storeFile[s] = "none"
          /\ storeRow = {} /\ onDisk = {} /\ fileRow = {} /\ artifactsRow = None
          /\ \A p \in Path : told[p] = None
          /\ \A r \in Req : req[r] = None
      BY DEF Files!Init, Files!Idle
    <2>2. ArtifactsType
      BY DEF Files!Init, Files!Idle, ArtifactsType
    <2>3. RowsSettled /\ RowIsTrue /\ UploadsRun
      BY <2>1 DEF RowsSettled, RowIsTrue, UploadsRun, PageMatches, StoreMatches, FileMatches
    <2> QED
      BY <2>2, <2>3 DEF ArtifactsInv
  <1>2. Inv /\ [ServerNext]_serverVars => Inv'
    <2> SUFFICES ASSUME part = "artifacts", ArtifactsInv, Files!Next \/ UNCHANGED artifactsVars
                 PROVE  ArtifactsInv'
      BY DEF ServerNext, serverVars
    <2>1. ASSUME NEW r \in Req, NEW s \in Slug, Files!StartPublish(r, s) PROVE ArtifactsInv'
      BY <2>1, StartOtherStep DEF Files!StartPublish
    <2>2. ASSUME NEW r \in Req, NEW s \in PageStore, Files!StartQuery(r, s) PROVE ArtifactsInv'
      BY <2>2, StartOtherStep DEF Files!StartQuery
    <2>3. ASSUME NEW r \in Req, Files!StartAdd(r) PROVE ArtifactsInv'
      BY <2>3, StartOtherStep DEF Files!StartAdd
    <2>4. CASE UNCHANGED artifactsVars
      <3>1. UNCHANGED <<pageDir, pageRow, storeFile, storeRow, onDisk, fileRow,
                        artifactsTarget, told, req, artifactsRow, artifactsSpoiled>>
        BY <2>4 DEF artifactsVars
      <3>2. RowsSettled' /\ RowIsTrue'
        BY <3>1, NothingKept DEF GoOn, Files!Extracting
      <3>3. ArtifactsType' /\ UploadsRun'
        BY <3>1 DEF ArtifactsInv, ArtifactsType, UploadsRun
      <3> QED
        BY <3>2, <3>3 DEF ArtifactsInv
    <2>5. CASE \E r \in Req :
                  \/ Files!Abort(r) \/ Files!PublishFile(r) \/ Files!PublishTar(r)
                  \/ Files!Extract(r) \/ Files!RunQuery(r) \/ Files!AddFile(r)
                  \/ Files!UploadEnds(r) \/ Files!UploadFails(r)
                  \/ \E p \in Path : Files!StartUpload(r, p)
      BY <2>5, AbortStep, PublishFileStep, PublishTarStep, ExtractStep, RunQueryStep, FileStep,
         UploadEndStep, StartUploadStep
    <2>6. CASE \/ \E s \in Slug : Files!DeletePage(s)
               \/ \E s \in PageStore : Files!CreateStore(s) \/ Files!DeleteStore(s)
               \/ \E f \in FileId : Files!DeleteFile(f)
               \/ Files!WriteRow \/ Files!Crash
      BY <2>6, DeletePageStep, StoreStep, FileStep, WriteRowStep, CrashStep
    <2> QED
      BY <2>1, <2>2, <2>3, <2>4, <2>5, <2>6 DEF Files!Next
  <1>3. Inv => KeptWhole
    <2> SUFFICES ASSUME ArtifactsInv PROVE Files!KeptWhole
      BY DEF KeptWhole
    <2>1. Files!UploadIsWhole
      BY DEF ArtifactsInv, UploadsRun, Files!UploadIsWhole
    <2>2. Files!RowsMatchDisk
      BY DEF ArtifactsInv, RowsSettled, Settled, PageMatches, StoreMatches, FileMatches,
             Files!RowsMatchDisk
    <2> QED
      BY <2>1, <2>2 DEF Files!KeptWhole
  <1> QED
    BY <1>1, <1>2, <1>3, PTL DEF ServerSpec

-----------------------------------------------------------------------------
(* TmuxPane                                                                *)

PaneRequest == [call : PaneCall, try : Nat, at : {"way", "pasted", "lost"}, left : Nat]

PaneType ==
    /\ line \in Seq(PaneCall) /\ submitted \subseteq Seq(PaneCall)
    /\ requests \subseteq PaneRequest
    /\ pc \in [PaneCall -> {"waiting", "sent", "backoff", "delivered", "failed"}]
    /\ tries \in [PaneCall -> Nat] /\ left \in [PaneCall -> Nat]
    /\ lease \in [owner : PaneCall \cup {Pane!Nobody}, left : Nat]

(* A call under the lock that gave up no attempt.                          *)
Prompt(c) == c \in Locked /\ c \notin late

(* It has one request at most, which it awaits.                            *)
OneAwaited(c) ==
    /\ \A r \in requests : r.call = c => pc[c] = "sent" /\ r.try = tries[c]
    /\ \A r, q \in requests : r.call = c /\ q.call = c => r = q

(* The row of the lock is its own meanwhile, and outlasts the attempt.     *)
HoldsLease(c) ==
    /\ pc[c] = "sent" => lease.owner = c /\ left[c] <= Timeout
                         /\ lease.left = Lease - (Timeout - left[c])
    /\ pc[c] = "backoff" => lease.owner = c /\ lease.left = Lease
    /\ \A r \in requests : r.call = c /\ r.at = "way" => left[c] = Timeout

(* Its text stands in the input line only as long as it waits for Enter.   *)
StandsWaiting(c) ==
    (\E i \in DOMAIN line : line[i] = c) => \E r \in requests : r.call = c /\ r.at = "pasted"

LineHasOne(s) ==
    \A i, j \in DOMAIN s : s[i] # s[j] /\ s[i] \in Locked /\ s[j] \in Locked
                           => s[i] \in late \/ s[j] \in late

PaneInv ==
    /\ PaneType
    /\ \A c \in PaneCall : Prompt(c) => OneAwaited(c) /\ HoldsLease(c) /\ StandsWaiting(c)
    /\ \A s \in submitted : LineHasOne(s)

(* The facts about the constants that the proofs use.                      *)
LEMMA PaneConstants ==
    /\ Locked \subseteq PaneCall /\ Locked \cap Unsent = {} /\ Pane!Nobody \notin PaneCall
    /\ Delay \in [PaneCall -> Nat] /\ Timeout \in Nat /\ Lease \in Nat /\ Attempts \in Nat
    /\ Timeout < Lease
  BY ServerAssumption DEF Pane!TmuxPaneAssumption

(* Only one such call holds the lock at a time.                            *)
LEMMA OneHolder ==
    ASSUME PaneInv, NEW c \in PaneCall, NEW d \in PaneCall, Prompt(c), Prompt(d),
           pc[c] \in {"sent", "backoff"}, pc[d] \in {"sent", "backoff"}
    PROVE  c = d /\ lease.owner = c /\ lease.left > 0
  BY PaneConstants DEF PaneInv, HoldsLease, PaneType

(* So the input line has the text of one of them at most.                  *)
LEMMA LineOfOne == ASSUME PaneInv PROVE LineHasOne(line)
  <1> USE PaneConstants
  <1>1. SUFFICES ASSUME NEW i \in DOMAIN line, NEW j \in DOMAIN line,
                        Prompt(line[i]), Prompt(line[j])
                 PROVE  line[i] = line[j]
    BY DEF LineHasOne, Prompt
  <1>2. line[i] \in PaneCall /\ line[j] \in PaneCall
    BY <1>1 DEF Prompt
  <1>3. \A c \in {line[i], line[j]} : pc[c] = "sent"
    BY <1>1, <1>2 DEF PaneInv, StandsWaiting, OneAwaited
  <1> QED
    BY <1>1, <1>2, <1>3, OneHolder

(* A call that sends its request.                                          *)
LEMMA SendRequestStep ==
    ASSUME PaneInv, NEW c \in PaneCall, Pane!Send(c)
    PROVE  /\ \E r \in PaneRequest : /\ r.call = c /\ r.try = tries'[c] /\ r.at = "way"
                                     /\ requests' = requests \cup {r}
           /\ tries' \in [PaneCall -> Nat] /\ left' \in [PaneCall -> Nat] /\ left'[c] = Timeout
           /\ pc' \in [PaneCall -> {"waiting", "sent", "backoff", "delivered", "failed"}]
           /\ pc'[c] = "sent"
           /\ \A d \in PaneCall : d # c => tries'[d] = tries[d] /\ left'[d] = left[d] /\ pc'[d] = pc[d]
  <1> USE PaneConstants
  <1>1. [call |-> c, try |-> tries[c] + 1, at |-> "way", left |-> Delay[c]] \in PaneRequest
    BY DEF PaneInv, PaneType, PaneRequest
  <1>2. /\ tries' \in [PaneCall -> Nat] /\ tries'[c] = tries[c] + 1
        /\ \A d \in PaneCall : d # c => tries'[d] = tries[d]
    BY DEF PaneInv, PaneType, Pane!Send
  <1>3. /\ left' \in [PaneCall -> Nat] /\ left'[c] = Timeout
        /\ \A d \in PaneCall : d # c => left'[d] = left[d]
    BY DEF PaneInv, PaneType, Pane!Send
  <1>4. /\ pc' \in [PaneCall -> {"waiting", "sent", "backoff", "delivered", "failed"}]
        /\ pc'[c] = "sent" /\ \A d \in PaneCall : d # c => pc'[d] = pc[d]
    BY DEF PaneInv, PaneType, Pane!Send
  <1>5. requests' = requests \cup {[call |-> c, try |-> tries[c] + 1, at |-> "way",
                                    left |-> Delay[c]]}
    BY DEF Pane!Send
  <1> QED
    BY <1>1, <1>2, <1>3, <1>4, <1>5

(* A first or second request takes the next number and a line of its own.  *)
LEMMA StartCallStep ==
    ASSUME PaneInv, NEW c \in PaneCall, Pane!Start(c) \/ Pane!Retry(c)
    PROVE  PaneInv'
  <1> USE PaneConstants
  <1>1. /\ Pane!Send(c) /\ UNCHANGED <<line, submitted, late>>
        /\ pc[c] \in {"waiting", "backoff"}
        /\ \/ pc[c] = "backoff" /\ UNCHANGED lease
           \/ c \notin Locked /\ UNCHANGED lease
           \/ /\ c \in Locked /\ lease.left = 0
              /\ lease' = [owner |-> c, left |-> Lease]
    BY DEF Pane!Start, Pane!Retry
  <1>2. PICK r \in PaneRequest : /\ r.call = c /\ r.try = tries'[c] /\ r.at = "way"
                                 /\ requests' = requests \cup {r}
    BY <1>1, SendRequestStep
  <1>3. /\ tries' \in [PaneCall -> Nat] /\ left' \in [PaneCall -> Nat] /\ left'[c] = Timeout
        /\ pc' \in [PaneCall -> {"waiting", "sent", "backoff", "delivered", "failed"}]
        /\ pc'[c] = "sent"
        /\ \A d \in PaneCall : d # c => tries'[d] = tries[d] /\ left'[d] = left[d] /\ pc'[d] = pc[d]
    BY <1>1, SendRequestStep
  <1>4. PaneType'
    BY <1>1, <1>2, <1>3 DEF PaneInv, PaneType
  <1>5. ASSUME NEW d \in PaneCall, Prompt(d)', d # c
        PROVE  OneAwaited(d)' /\ HoldsLease(d)' /\ StandsWaiting(d)'
    <2>1. Prompt(d) /\ OneAwaited(d) /\ HoldsLease(d) /\ StandsWaiting(d)
      BY <1>1, <1>5 DEF Prompt, PaneInv
    <2>2. OneAwaited(d)'
      BY <1>2, <1>3, <1>5, <2>1 DEF OneAwaited
    <2>3. pc[d] \in {"sent", "backoff"} => UNCHANGED lease
      BY <1>1, <2>1, OneHolder
    <2>4. HoldsLease(d)'
      BY <1>2, <1>3, <1>5, <2>1, <2>3 DEF HoldsLease
    <2>5. StandsWaiting(d)'
      BY <1>1, <1>2, <2>1 DEF StandsWaiting
    <2> QED
      BY <2>2, <2>4, <2>5
  <1>6. ASSUME Prompt(c)'
        PROVE  OneAwaited(c)' /\ HoldsLease(c)' /\ StandsWaiting(c)'
    <2>1. Prompt(c) /\ OneAwaited(c) /\ HoldsLease(c) /\ StandsWaiting(c)
      BY <1>1, <1>6 DEF Prompt, PaneInv
    <2>2. \A q \in requests : q.call # c
      BY <1>1, <2>1 DEF OneAwaited
    <2>3. OneAwaited(c)'
      BY <1>2, <1>3, <2>2 DEF OneAwaited
    <2>4. lease'.owner = c /\ lease'.left = Lease
      BY <1>1, <2>1 DEF Prompt, HoldsLease
    <2>5. HoldsLease(c)'
      BY <1>2, <1>3, <2>2, <2>4 DEF HoldsLease
    <2>6. StandsWaiting(c)'
      BY <1>1, <2>1, <2>2 DEF StandsWaiting
    <2> QED
      BY <2>3, <2>5, <2>6
  <1>7. \A s \in submitted' : LineHasOne(s)'
    BY <1>1 DEF PaneInv, LineHasOne
  <1> QED
    BY <1>4, <1>5, <1>6, <1>7 DEF PaneInv

(* A call that a step leaves alone stays as it is.                         *)
LEMMA LeftAlone ==
    ASSUME PaneInv, NEW d \in PaneCall, Prompt(d),
           pc'[d] = pc[d], tries'[d] = tries[d], left'[d] = left[d],
           pc[d] \in {"sent", "backoff"} => UNCHANGED lease,
           \A r : r.call = d => (r \in requests' <=> r \in requests),
           (\E i \in DOMAIN line' : line'[i] = d) => \E i \in DOMAIN line : line[i] = d
    PROVE  OneAwaited(d)' /\ HoldsLease(d)' /\ StandsWaiting(d)'
  <1>1. OneAwaited(d) /\ HoldsLease(d) /\ StandsWaiting(d)
    BY DEF PaneInv
  <1>2. OneAwaited(d)'
    BY <1>1 DEF OneAwaited
  <1>3. HoldsLease(d)'
    BY <1>1 DEF HoldsLease
  <1>4. StandsWaiting(d)'
    BY <1>1 DEF StandsWaiting
  <1> QED
    BY <1>2, <1>3, <1>4

(* A request that gets elsewhere or older is the same in all else.         *)
LEMMA RequestMoves ==
    ASSUME NEW r \in PaneRequest
    PROVE  /\ \A a \in {"way", "pasted", "lost"} :
                  /\ [r EXCEPT !.at = a] \in PaneRequest
                  /\ [r EXCEPT !.at = a].at = a
                  /\ [r EXCEPT !.at = a].call = r.call /\ [r EXCEPT !.at = a].try = r.try
           /\ \A n \in Nat :
                  /\ [r EXCEPT !.left = n] \in PaneRequest
                  /\ [r EXCEPT !.left = n].at = r.at
                  /\ [r EXCEPT !.left = n].call = r.call /\ [r EXCEPT !.left = n].try = r.try
  <1>1. /\ r.call \in PaneCall /\ r.try \in Nat /\ r.at \in {"way", "pasted", "lost"} /\ r.left \in Nat
        /\ r = [call |-> r.call, try |-> r.try, at |-> r.at, left |-> r.left]
    BY DEF PaneRequest
  <1>2. \A a : [r EXCEPT !.at = a] = [call |-> r.call, try |-> r.try, at |-> a, left |-> r.left]
    BY <1>1
  <1>3. \A n : [r EXCEPT !.left = n] = [call |-> r.call, try |-> r.try, at |-> r.at, left |-> n]
    BY <1>1
  <1> QED
    BY <1>1, <1>2, <1>3 DEF PaneRequest

(* A call that ends gives up its own row only, and waits for nothing more. *)
LEMMA EndCallStep ==
    ASSUME PaneInv, NEW c \in PaneCall, NEW how \in {"delivered", "failed"}, Pane!End(c, how)
    PROVE  /\ pc' \in [PaneCall -> {"waiting", "sent", "backoff", "delivered", "failed"}]
           /\ pc'[c] = how /\ \A d \in PaneCall : d # c => pc'[d] = pc[d]
           /\ lease' \in [owner : PaneCall \cup {Pane!Nobody}, left : Nat]
           /\ \A d \in PaneCall : d # c /\ Prompt(d) /\ pc[d] \in {"sent", "backoff"}
                              => UNCHANGED lease
  <1> USE PaneConstants
  <1>1. /\ pc' \in [PaneCall -> {"waiting", "sent", "backoff", "delivered", "failed"}]
        /\ pc'[c] = how /\ \A d \in PaneCall : d # c => pc'[d] = pc[d]
    BY DEF PaneInv, PaneType, Pane!End
  <1>2. lease' \in [owner : PaneCall \cup {Pane!Nobody}, left : Nat]
    BY DEF PaneInv, PaneType, Pane!End
  <1>3. \A d \in PaneCall : d # c /\ Prompt(d) /\ pc[d] \in {"sent", "backoff"} => UNCHANGED lease
    BY OneHolder DEF Pane!End
  <1> QED
    BY <1>1, <1>2, <1>3

(* An answer ends the call that waited for it.                             *)
LEMMA AnsweredStep ==
    ASSUME PaneInv, NEW c \in PaneCall, Pane!Answered(c)
    PROVE  PaneInv'
  <1>1. /\ pc[c] = "sent" /\ Pane!Finished(c) /\ Pane!End(c, "delivered")
        /\ UNCHANGED <<line, submitted, requests, tries, left, late>>
    BY DEF Pane!Answered
  <1>2. /\ pc' \in [PaneCall -> {"waiting", "sent", "backoff", "delivered", "failed"}]
        /\ pc'[c] = "delivered" /\ \A d \in PaneCall : d # c => pc'[d] = pc[d]
        /\ lease' \in [owner : PaneCall \cup {Pane!Nobody}, left : Nat]
        /\ \A d \in PaneCall : d # c /\ Prompt(d) /\ pc[d] \in {"sent", "backoff"} => UNCHANGED lease
    BY <1>1, EndCallStep
  <1>3. PaneType'
    BY <1>1, <1>2 DEF PaneInv, PaneType
  <1>4. ASSUME NEW d \in PaneCall, Prompt(d)', d # c
        PROVE  OneAwaited(d)' /\ HoldsLease(d)' /\ StandsWaiting(d)'
    <2>1. Prompt(d)
      BY <1>1, <1>4 DEF Prompt
    <2> QED
      BY <1>1, <1>2, <1>4, <2>1, LeftAlone
  <1>5. ASSUME Prompt(c)'
        PROVE  OneAwaited(c)' /\ HoldsLease(c)' /\ StandsWaiting(c)'
    <2>1. Prompt(c) /\ OneAwaited(c) /\ StandsWaiting(c)
      BY <1>1, <1>5 DEF Prompt, PaneInv
    <2>2. \A r \in requests : r.call # c
      BY <1>1, <2>1 DEF OneAwaited, Pane!Finished, Pane!OfAttempt
    <2> QED
      BY <1>1, <1>2, <2>1, <2>2 DEF OneAwaited, HoldsLease, StandsWaiting
  <1>6. \A s \in submitted' : LineHasOne(s)'
    BY <1>1 DEF PaneInv, LineHasOne
  <1> QED
    BY <1>3, <1>4, <1>5, <1>6 DEF PaneInv

(* A call that gives up waits for nothing more; its request may still run. *)
LEMMA GiveUpStep ==
    ASSUME PaneInv, NEW c \in PaneCall, Pane!GiveUp(c)
    PROVE  PaneInv'
  <1>1. /\ UNCHANGED <<line, submitted, tries, left>> /\ late' = late \cup {c}
        /\ requests' = {r \in requests : ~(r.call = c /\ r.at = "lost")}
        /\ \/ pc' = [pc EXCEPT ![c] = "backoff"] /\ UNCHANGED lease
           \/ Pane!End(c, "failed")
    BY DEF Pane!GiveUp
  <1>2. /\ pc' \in [PaneCall -> {"waiting", "sent", "backoff", "delivered", "failed"}]
        /\ \A d \in PaneCall : d # c => pc'[d] = pc[d]
        /\ lease' \in [owner : PaneCall \cup {Pane!Nobody}, left : Nat]
        /\ \A d \in PaneCall : d # c /\ Prompt(d) /\ pc[d] \in {"sent", "backoff"} => UNCHANGED lease
    <2>1. CASE pc' = [pc EXCEPT ![c] = "backoff"] /\ UNCHANGED lease
      BY <2>1 DEF PaneInv, PaneType
    <2>2. CASE Pane!End(c, "failed")
      BY <2>2, EndCallStep
    <2> QED
      BY <1>1, <2>1, <2>2
  <1>3. PaneType'
    BY <1>1, <1>2 DEF PaneInv, PaneType
  <1>4. ASSUME NEW d \in PaneCall, Prompt(d)'
        PROVE  OneAwaited(d)' /\ HoldsLease(d)' /\ StandsWaiting(d)'
    <2>1. Prompt(d) /\ d # c
      BY <1>1, <1>4 DEF Prompt
    <2> QED
      BY <1>1, <1>2, <2>1, LeftAlone
  <1>5. \A s \in submitted' : LineHasOne(s)'
    BY <1>1 DEF PaneInv, LineHasOne
  <1> QED
    BY <1>3, <1>4, <1>5 DEF PaneInv

(* A text that is pasted waits for its Enter, unless it is to get none.    *)
LEMMA PasteStep ==
    ASSUME PaneInv, NEW r \in requests, Pane!Paste(r)
    PROVE  PaneInv'
  <1> USE PaneConstants
  <1>1. /\ r.at = "way" /\ line' = Append(line, r.call)
        /\ requests' = (requests \ {r}) \cup
               IF r.call \in Unsent THEN {} ELSE {[r EXCEPT !.at = "pasted"]}
        /\ UNCHANGED <<submitted, pc, tries, left, lease, late>>
    BY DEF Pane!Paste
  <1>2. r \in PaneRequest /\ line \in Seq(PaneCall)
    BY DEF PaneInv, PaneType
  <1>3. PICK q \in PaneRequest : /\ q = [r EXCEPT !.at = "pasted"]
                                 /\ q.call = r.call /\ q.try = r.try /\ q.at = "pasted"
    BY ZenonT(40), <1>2, RequestMoves
  <1>4. /\ line' \in Seq(PaneCall)
        /\ \A i \in DOMAIN line' : line'[i] = r.call
                                   \/ (i \in DOMAIN line /\ line'[i] = line[i])
    BY SMTT(30), <1>1, <1>2 DEF PaneRequest
  <1>5. PaneType'
    BY <1>1, <1>3, <1>4 DEF PaneInv, PaneType
  <1>6. ASSUME NEW d \in PaneCall, Prompt(d)', d # r.call
        PROVE  OneAwaited(d)' /\ HoldsLease(d)' /\ StandsWaiting(d)'
    <2>1. Prompt(d)
      BY <1>1, <1>6 DEF Prompt
    <2>2. \A o : o.call = d => (o \in requests' <=> o \in requests)
      BY <1>1, <1>3, <1>6
    <2> QED
      BY <1>1, <1>4, <1>6, <2>1, <2>2, LeftAlone
  <1>7. ASSUME NEW c \in PaneCall, c = r.call, Prompt(c)'
        PROVE  OneAwaited(c)' /\ HoldsLease(c)' /\ StandsWaiting(c)'
    <2>1. Prompt(c) /\ OneAwaited(c) /\ HoldsLease(c) /\ c \notin Unsent
      BY <1>1, <1>7 DEF Prompt, PaneInv
    <2>2. requests' = (requests \ {r}) \cup {q}
      BY <1>1, <1>3, <1>7, <2>1
    <2>3. \A o \in requests' : o.call = c => o = q
      BY <1>7, <2>1, <2>2 DEF OneAwaited
    <2>4. OneAwaited(c)'
      BY <1>1, <1>3, <1>7, <2>1, <2>3 DEF OneAwaited
    <2>5. HoldsLease(c)'
      BY <1>1, <1>3, <2>1, <2>3 DEF HoldsLease
    <2>6. StandsWaiting(c)'
      BY <1>3, <1>7, <2>2 DEF StandsWaiting
    <2> QED
      BY <2>4, <2>5, <2>6
  <1>8. \A s \in submitted' : LineHasOne(s)'
    BY <1>1 DEF PaneInv, LineHasOne
  <1> QED
    BY <1>5, <1>6, <1>7, <1>8 DEF PaneInv

(* Enter submits the line as it stands.                                    *)
LEMMA EnterStep ==
    ASSUME PaneInv, NEW r \in requests, Pane!Enter(r)
    PROVE  PaneInv'
  <1>1. /\ requests' = requests \ {r} /\ submitted' = submitted \cup {line} /\ line' = <<>>
        /\ UNCHANGED <<pc, tries, left, lease, late>>
    BY DEF Pane!Enter, Pane!Submit
  <1>2. PaneType'
    BY <1>1 DEF PaneInv, PaneType
  <1>3. ASSUME NEW d \in PaneCall, Prompt(d)'
        PROVE  OneAwaited(d)' /\ HoldsLease(d)' /\ StandsWaiting(d)'
    <2>1. OneAwaited(d) /\ HoldsLease(d)
      BY <1>1, <1>3 DEF Prompt, PaneInv
    <2> QED
      BY <1>1, <2>1 DEF OneAwaited, HoldsLease, StandsWaiting
  <1>4. \A s \in submitted' : LineHasOne(s)'
    BY <1>1, LineOfOne DEF PaneInv, LineHasOne
  <1> QED
    BY <1>2, <1>3, <1>4 DEF PaneInv

(* A call that failed with its text typed is one that is excepted.         *)
LEMMA BreakStep ==
    ASSUME PaneInv, NEW r \in requests, Pane!Break(r)
    PROVE  PaneInv'
  <1>1. PICK c \in PaneCall : c = r.call
    BY DEF PaneInv, PaneType, PaneRequest
  <1>2. /\ UNCHANGED <<tries, left>> /\ late' = late \cup {c} /\ requests' = requests \ {r}
        /\ Pane!End(c, "failed") \/ UNCHANGED <<pc, lease>>
        /\ \/ submitted' = submitted \cup {line} /\ line' = <<>>
           \/ UNCHANGED <<line, submitted>>
    BY <1>1 DEF Pane!Break, Pane!AnswerError, Pane!Submit
  <1>3. /\ pc' \in [PaneCall -> {"waiting", "sent", "backoff", "delivered", "failed"}]
        /\ \A d \in PaneCall : d # c => pc'[d] = pc[d]
        /\ lease' \in [owner : PaneCall \cup {Pane!Nobody}, left : Nat]
        /\ \A d \in PaneCall : d # c /\ Prompt(d) /\ pc[d] \in {"sent", "backoff"} => UNCHANGED lease
    <2>1. CASE UNCHANGED <<pc, lease>>
      BY <2>1 DEF PaneInv, PaneType
    <2>2. CASE Pane!End(c, "failed")
      BY <2>2, EndCallStep
    <2> QED
      BY <1>2, <2>1, <2>2
  <1>4. PaneType'
    <2>1. line' \in Seq(PaneCall) /\ submitted' \subseteq Seq(PaneCall)
      <3>1. line \in Seq(PaneCall) /\ submitted \subseteq Seq(PaneCall)
        BY DEF PaneInv, PaneType
      <3>2. CASE submitted' = submitted \cup {line} /\ line' = <<>>
        BY <3>1, <3>2
      <3> QED
        BY <1>2, <3>1, <3>2
    <2>2. /\ requests' \subseteq PaneRequest
          /\ tries' \in [PaneCall -> Nat] /\ left' \in [PaneCall -> Nat]
      BY <1>2 DEF PaneInv, PaneType
    <2> QED
      BY <1>3, <2>1, <2>2 DEF PaneType
  <1>5. ASSUME NEW d \in PaneCall, Prompt(d)'
        PROVE  OneAwaited(d)' /\ HoldsLease(d)' /\ StandsWaiting(d)'
    <2>1. Prompt(d) /\ d # c
      BY <1>2, <1>5 DEF Prompt
    <2>2. \A o : o.call = d => (o \in requests' <=> o \in requests)
      BY <1>1, <1>2, <2>1
    <2>3. (\E i \in DOMAIN line' : line'[i] = d) => \E i \in DOMAIN line : line[i] = d
      BY <1>2
    <2> QED
      BY <1>2, <1>3, <2>1, <2>2, <2>3, LeftAlone
  <1>6. ASSUME NEW s \in submitted'
        PROVE  LineHasOne(s)'
    <2>1. LineHasOne(s)
      BY <1>2, <1>6, LineOfOne DEF PaneInv
    <2> QED
      BY <1>2, <2>1 DEF LineHasOne
  <1> QED
    BY <1>4, <1>5, <1>6 DEF PaneInv

(* A request that was not typed is gone, or is lost: its call ends or will *)
(* try again, or goes on waiting.                                          *)
LEMMA NotTypedStep ==
    ASSUME PaneInv, NEW r \in requests, Pane!Refuse(r) \/ Pane!Lose(r)
    PROVE  PaneInv'
  <1> USE PaneConstants
  <1>1. PICK c \in PaneCall : c = r.call
    BY DEF PaneInv, PaneType, PaneRequest
  <1>2. r.at = "way" /\ UNCHANGED <<line, submitted, tries, left, late>>
    BY DEF Pane!Refuse, Pane!Lose
  <1>3. ASSUME requests' = (requests \ {r}) \cup {[r EXCEPT !.at = "lost"]},
               UNCHANGED <<pc, lease>>
        PROVE  PaneInv'
    <2>1. PICK q \in PaneRequest : /\ q = [r EXCEPT !.at = "lost"]
                                   /\ q.call = c /\ q.try = r.try /\ q.at = "lost"
      <3>1. r \in PaneRequest
        BY DEF PaneInv, PaneType
      <3>2. /\ [r EXCEPT !.at = "lost"] \in PaneRequest
            /\ [r EXCEPT !.at = "lost"].at = "lost"
            /\ [r EXCEPT !.at = "lost"].call = c /\ [r EXCEPT !.at = "lost"].try = r.try
        BY <1>1, <3>1, RequestMoves
      <3> QED
        BY <3>2
    <2>2. PaneType'
      BY <1>2, <1>3, <2>1 DEF PaneInv, PaneType
    <2>3. ASSUME NEW d \in PaneCall, Prompt(d)', d # c
          PROVE  OneAwaited(d)' /\ HoldsLease(d)' /\ StandsWaiting(d)'
      <3>1. Prompt(d)
        BY <1>2, <2>3 DEF Prompt
      <3>2. \A o : o.call = d => (o \in requests' <=> o \in requests)
        BY <1>1, <1>3, <2>1, <2>3
      <3> QED
        BY <1>2, <1>3, <3>1, <3>2, LeftAlone
    <2>4. ASSUME Prompt(c)'
          PROVE  OneAwaited(c)' /\ HoldsLease(c)' /\ StandsWaiting(c)'
      <3>1. Prompt(c) /\ OneAwaited(c) /\ HoldsLease(c) /\ StandsWaiting(c)
        BY <1>2, <2>4 DEF Prompt, PaneInv
      <3>2. \A o \in requests' : o.call = c => o = q
        BY <1>1, <1>3, <2>1, <3>1 DEF OneAwaited
      <3>3. OneAwaited(c)'
        BY <1>1, <1>2, <1>3, <2>1, <3>1, <3>2 DEF OneAwaited
      <3>4. HoldsLease(c)'
        BY <1>2, <1>3, <2>1, <3>1, <3>2 DEF HoldsLease
      <3>5. ~ \E o \in requests : o.call = c /\ o.at = "pasted"
        BY <1>1, <1>2, <3>1 DEF OneAwaited
      <3>6. StandsWaiting(c)'
        BY <1>2, <3>1, <3>5 DEF StandsWaiting
      <3> QED
        BY <3>3, <3>4, <3>6
    <2>5. \A s \in submitted' : LineHasOne(s)'
      BY <1>2 DEF PaneInv, LineHasOne
    <2> QED
      BY <2>2, <2>3, <2>4, <2>5 DEF PaneInv
  <1>4. ASSUME requests' = requests \ {r},
               \/ UNCHANGED <<pc, lease>> /\ ~Pane!Awaited(r)
               \/ pc' = [pc EXCEPT ![c] = "backoff"] /\ UNCHANGED lease /\ Pane!Awaited(r)
               \/ Pane!End(c, "failed")
        PROVE  PaneInv'
    <2>1. /\ pc' \in [PaneCall -> {"waiting", "sent", "backoff", "delivered", "failed"}]
          /\ \A d \in PaneCall : d # c => pc'[d] = pc[d]
          /\ lease' \in [owner : PaneCall \cup {Pane!Nobody}, left : Nat]
          /\ \A d \in PaneCall : d # c /\ Prompt(d) /\ pc[d] \in {"sent", "backoff"}
                             => UNCHANGED lease
          /\ \/ UNCHANGED <<pc, lease>> /\ ~Pane!Awaited(r)
             \/ pc'[c] = "backoff" /\ UNCHANGED lease /\ Pane!Awaited(r)
             \/ pc'[c] = "failed"
      <3>1. CASE UNCHANGED <<pc, lease>> /\ ~Pane!Awaited(r)
        BY <3>1 DEF PaneInv, PaneType
      <3>2. CASE pc' = [pc EXCEPT ![c] = "backoff"] /\ UNCHANGED lease /\ Pane!Awaited(r)
        BY <3>2 DEF PaneInv, PaneType
      <3>3. CASE Pane!End(c, "failed")
        BY <3>3, EndCallStep
      <3> QED
        BY <1>4, <3>1, <3>2, <3>3
    <2>2. PaneType'
      BY <1>2, <1>4, <2>1 DEF PaneInv, PaneType
    <2>3. ASSUME NEW d \in PaneCall, Prompt(d)', d # c
          PROVE  OneAwaited(d)' /\ HoldsLease(d)' /\ StandsWaiting(d)'
      <3>1. Prompt(d)
        BY <1>2, <2>3 DEF Prompt
      <3>2. \A o : o.call = d => (o \in requests' <=> o \in requests)
        BY <1>1, <1>4, <2>3
      <3> QED
        BY <1>2, <2>1, <2>3, <3>1, <3>2, LeftAlone
    <2>4. ASSUME Prompt(c)'
          PROVE  OneAwaited(c)' /\ HoldsLease(c)' /\ StandsWaiting(c)'
      <3>1. Prompt(c) /\ OneAwaited(c) /\ HoldsLease(c) /\ StandsWaiting(c)
        BY <1>2, <2>4 DEF Prompt, PaneInv
      <3>2. pc[c] = "sent" /\ Pane!Awaited(r) /\ left[c] = Timeout
        BY <1>1, <1>2, <3>1 DEF OneAwaited, HoldsLease, Pane!Awaited
      <3>3. \A o \in requests : o.call = c => o = r
        BY <1>1, <3>1 DEF OneAwaited
      <3>4. \A o \in requests' : o.call # c
        BY <1>4, <3>3
      <3>5. OneAwaited(c)'
        BY <3>4 DEF OneAwaited
      <3>6. lease.owner = c /\ lease.left = Lease
        BY <3>1, <3>2 DEF HoldsLease, PaneInv, PaneType
      <3>7. pc'[c] # "sent" /\ (pc'[c] = "backoff" => UNCHANGED lease)
        BY <2>1, <3>2
      <3>8. HoldsLease(c)'
        BY <3>4, <3>6, <3>7 DEF HoldsLease
      <3>9. StandsWaiting(c)'
        BY <1>2, <3>1, <3>3 DEF StandsWaiting
      <3> QED
        BY <3>5, <3>8, <3>9
    <2>5. \A s \in submitted' : LineHasOne(s)'
      BY <1>2 DEF PaneInv, LineHasOne
    <2> QED
      BY <2>2, <2>3, <2>4, <2>5 DEF PaneInv
  <1>5. CASE Pane!Refuse(r)
    <2>1. /\ requests' = requests \ {r}
          /\ Pane!End(c, "failed") \/ (UNCHANGED <<pc, lease>> /\ ~Pane!Awaited(r))
      BY <1>1, <1>5 DEF Pane!Refuse, Pane!AnswerError
    <2> QED
      BY <1>4, <2>1
  <1>6. CASE Pane!Lose(r)
    <2>1. \/ /\ requests' = (requests \ {r}) \cup {[r EXCEPT !.at = "lost"]}
             /\ UNCHANGED <<pc, lease>>
          \/ /\ requests' = requests \ {r}
             /\ \/ UNCHANGED <<pc, lease>> /\ ~Pane!Awaited(r)
                \/ pc' = [pc EXCEPT ![c] = "backoff"] /\ UNCHANGED lease /\ Pane!Awaited(r)
                \/ Pane!End(c, "failed")
      BY <1>1, <1>6 DEF Pane!Lose
    <2> QED
      BY <1>3, <1>4, <2>1
  <1> QED
    BY <1>5, <1>6

(* The time of an attempt and its lease pass together.                     *)
LEMMA TickStep ==
    ASSUME PaneInv, Pane!Tick
    PROVE  PaneInv'
  <1> USE PaneConstants
  <1>1. /\ \A c \in PaneCall : pc[c] # "backoff" /\ (pc[c] = "sent" => left[c] > 0)
        /\ \A r \in requests : r.at # "way"
        /\ requests' = {[r EXCEPT !.left = Pane!Less(@)] : r \in requests}
        /\ left' = [c \in PaneCall |-> Pane!Less(left[c])]
        /\ lease' = [lease EXCEPT !.left = Pane!Less(@)]
        /\ UNCHANGED <<line, submitted, pc, tries, late>>
    BY DEF Pane!Tick
  <1>2. \A n \in Nat : Pane!Less(n) \in Nat /\ (n > 0 => Pane!Less(n) = n - 1)
    BY DEF Pane!Less
  <1> DEFINE Older(r) == [r EXCEPT !.left = Pane!Less(r.left)]
  <1>3. /\ \A q \in requests' : \E r \in requests : q = Older(r)
        /\ \A r \in requests : Older(r) \in requests'
    BY <1>1
  <1>4. \A r \in requests : /\ Older(r) \in PaneRequest /\ Older(r).at = r.at
                            /\ Older(r).call = r.call /\ Older(r).try = r.try
    <2>1. \A r \in requests : r \in PaneRequest /\ Pane!Less(r.left) \in Nat
      BY <1>2 DEF PaneInv, PaneType, PaneRequest
    <2> QED
      BY <2>1, RequestMoves
  <1> HIDE DEF Older
  <1>5. /\ left' \in [PaneCall -> Nat]
        /\ \A c \in PaneCall : pc[c] = "sent" => left'[c] = left[c] - 1
    BY <1>1, <1>2 DEF PaneInv, PaneType
  <1>6. /\ lease' \in [owner : PaneCall \cup {Pane!Nobody}, left : Nat] /\ lease'.owner = lease.owner
        /\ lease.left > 0 => lease'.left = lease.left - 1
    BY <1>1, <1>2 DEF PaneInv, PaneType
  <1>7. UNCHANGED <<line, submitted, pc, tries, late>>
    BY <1>1
  <1>8. \A c \in PaneCall : pc[c] # "backoff" /\ (pc[c] = "sent" => left[c] > 0)
    BY <1>1
  <1>9. \A q \in requests' : /\ q \in PaneRequest /\ q.at # "way"
                              /\ \E r \in requests : q = Older(r) /\ q.at = r.at
                                                  /\ q.call = r.call /\ q.try = r.try
    <2>1. \A r \in requests : r.at # "way"
      BY <1>1
    <2>2. ASSUME NEW q \in requests'
          PROVE  /\ q \in PaneRequest /\ q.at # "way"
                 /\ \E r \in requests : q = Older(r) /\ q.at = r.at
                                     /\ q.call = r.call /\ q.try = r.try
      <3>1. PICK r \in requests : q = Older(r)
        BY <1>3
      <3>2. q \in PaneRequest /\ q.at = r.at /\ q.call = r.call /\ q.try = r.try
        BY <1>4, <3>1
      <3> QED
        BY <2>1, <3>1, <3>2
    <2> QED
      BY <2>2
  <1>10. PaneType'
    BY <1>5, <1>6, <1>7, <1>9 DEF PaneInv, PaneType
  <1>11. ASSUME NEW c \in PaneCall, Prompt(c)'
        PROVE  OneAwaited(c)' /\ HoldsLease(c)' /\ StandsWaiting(c)'
    <2>1. Prompt(c) /\ OneAwaited(c) /\ HoldsLease(c) /\ StandsWaiting(c)
      BY <1>11, <1>7 DEF Prompt, PaneInv
    <2>2. OneAwaited(c)'
      BY <1>7, <1>9, <2>1 DEF OneAwaited
    <2>3. pc[c] = "sent" => left[c] > 0 /\ lease.left > 0
      BY <1>8, <2>1, OneHolder
    <2>4. HoldsLease(c)'
      <3>1. \A q \in requests' : q.at # "way"
        BY <1>9
      <3>2. pc[c] = "sent" => lease'.owner = c /\ left'[c] <= Timeout
                              /\ lease'.left = Lease - (Timeout - left'[c])
        BY <1>5, <1>6, <2>1, <2>3 DEF HoldsLease, PaneInv, PaneType
      <3> QED
        BY <1>7, <1>8, <3>1, <3>2 DEF HoldsLease
    <2>5. StandsWaiting(c)'
      BY <1>3, <1>4, <1>7, <2>1 DEF StandsWaiting
    <2> QED
      BY <2>2, <2>4, <2>5
  <1>12. \A s \in submitted' : LineHasOne(s)'
    BY <1>7 DEF PaneInv, LineHasOne
  <1> QED
    BY <1>10, <1>11, <1>12 DEF PaneInv

(* Two texts that were delivered under the lock, and of which no attempt   *)
(* was given up or failed after typing, are not submitted as one line      *)
(* (OneTextPerLine), for any calls, delays and losses, if the lease is     *)
(* longer than an attempt (tmux.ts:72-95, main.ts:111-116).                *)
THEOREM TextsAreApart == ServerSpec => []OneTextPerLine
  <1> DEFINE Inv == part = "pane" => PaneInv
  <1>1. ServerInit => Inv
    <2> SUFFICES ASSUME Pane!Init PROVE PaneInv
      BY DEF ServerInit
    <2> USE PaneConstants
    <2>1. PaneType
      BY DEF Pane!Init, PaneType
    <2>2. /\ requests = {} /\ submitted = {} /\ line = <<>>
          /\ \A c \in PaneCall : pc[c] = "waiting"
      BY DEF Pane!Init
    <2> QED
      BY <2>1, <2>2 DEF PaneInv, OneAwaited, HoldsLease, StandsWaiting
  <1>2. Inv /\ [ServerNext]_serverVars => Inv'
    <2> SUFFICES ASSUME part = "pane", PaneInv, Pane!Next \/ UNCHANGED paneVars
                 PROVE  PaneInv'
      BY DEF ServerNext, serverVars
    <2>1. CASE UNCHANGED paneVars
      BY <2>1 DEF paneVars, PaneInv, PaneType, Prompt, OneAwaited, HoldsLease, StandsWaiting,
                  LineHasOne
    <2>2. CASE Pane!Next
      BY <2>2, StartCallStep, AnsweredStep, GiveUpStep, PasteStep, NotTypedStep, EnterStep,
         BreakStep, TickStep DEF Pane!Next
    <2> QED
      BY <2>1, <2>2
  <1>3. Inv => OneTextPerLine
    BY DEF PaneInv, LineHasOne, OneTextPerLine, Pane!OneTextPerLine
  <1> QED
    BY <1>1, <1>2, <1>3, PTL DEF ServerSpec

-----------------------------------------------------------------------------
(* Launches                                                                *)

IdOrNone == (Nat \ {0}) \cup {None}
PaneLine == Start!Lines(config.engine, Nat \cup {None})
PaneStep == Start!Steps(config.engine, Nat \cup {None})
Launching == op.running /\ op.kind \in Start!Launches
Leaving == op.running /\ op.kind \in {"suspend", "reload"}

PaneRecord == [open : BOOLEAN, runs : IdOrNone, export : BOOLEAN, home : {"real", "own"},
               typed : PaneLine \cup {None}, prompt : Int \cup {None}]
Talk == [id : Nat \ {0}, home : {"real", "own"}]
LaunchType ==
    /\ config \in Config /\ persona \in Nat /\ creds \in BOOLEAN
    /\ sid \in IdOrNone /\ captured \in IdOrNone /\ record \in IdOrNone
    /\ last \in IdOrNone /\ launchScreen \in IdOrNone
    /\ profile \in Int /\ issued \in Nat
    /\ talks \subseteq Talk
    /\ launchPane \in PaneRecord
    /\ op \in [kind : Start!Launches \cup {"none", "suspend", "reload", "button", "kill", "fail"},
               running : BOOLEAN, persona : Nat]
    /\ op.persona <= persona
    /\ launchTodo \in Seq(PaneStep)

(* What is left to type is what the function that runs may type: CLIs are  *)
(* started by launches only, and left by what suspends and reloads.        *)
TypedStart == launchPane.typed # None /\ launchPane.typed.do \in {"start", "resume"}
NoStarts(steps) == \A i \in DOMAIN steps : ~Start!Starts(steps[i])
TodoShape ==
    /\ ~op.running => launchTodo = <<>>
    /\ Start!Entered(launchTodo)
    /\ ~Launching => NoStarts(launchTodo)
    /\ TypedStart => Launching /\ launchTodo # <<>> /\ launchTodo[1] = Start!Key("Enter")
    /\ Leaving /\ Start!Running => \E i \in DOMAIN launchTodo : Start!Exits(launchTodo[i])
    /\ Start!Running => state = "active" \/ Launching
    /\ Leaving => state = "active"
    /\ ~Start!Running => launchPane.prompt = None
    /\ op.running => op.kind \in Start!Launches \cup {"suspend", "reload", "button"}

(* The name is exported before anything can start a CLI.                   *)
Unkeyed == ~Start!Keyed(config.start) /\ ~Start!Keyed(config.resume)
ExportFirst(steps) ==
    \E i \in DOMAIN steps :
        /\ steps[i].type = "shell" /\ steps[i].line.export
        /\ \A j \in 1 .. i - 1 : steps[j].type # "shell" /\ steps[j] # Start!Key("Enter")
Exported ==
    Unkeyed => /\ Start!Running => launchPane.export
               /\ Launching /\ ~launchPane.export => ExportFirst(launchTodo)

(* The persona is that of the launch or later.                             *)
Prompted ==
    op.kind \in Start!Launches =>
        /\ launchPane.prompt # None => launchPane.prompt >= op.persona
        /\ Start!UsesProfile(config.engine) => profile >= op.persona

(* The conversation that runs, and the one that was left, can be found; a  *)
(* failed agent was not left.                                              *)
InReal(id) == [id |-> id, home |-> "real"]
Found ==
    /\ last # None => state \in {"active", "suspended"}
    /\ ~config.account => launchPane.home = "real"
    /\ config.linked \/ ~config.account =>
        /\ Start!Running => InReal(launchPane.runs) \in talks
        /\ last # None => InReal(last) \in talks

(* The agent was left, or is being left, and not started again: what runs, *)
(* and what can be read in the pane, is the conversation that was left.    *)
Left == last # None /\ (Leaving \/ (state = "suspended" /\ ~Launching))
OnScreen ==
    /\ Start!Running /\ launchScreen # None => launchScreen = launchPane.runs
    /\ Left => /\ launchScreen \in {None, last}
               /\ Start!Running => Leaving /\ launchPane.runs = last

(* Where every launch passes the id, the id on the row is the one of the   *)
(* conversation that runs or was left.                                     *)
PassesIds == /\ config.engine = "claude"
             /\ Start!GivesId(config.start) /\ Start!GivesId(config.resume)
RowNames ==
    PassesIds =>
        /\ Launching =>
            /\ record # None /\ ~TypedStart
            /\ \A i \in DOMAIN launchTodo :
                  Start!Starts(launchTodo[i]) =>
                      launchTodo[i].type = "shell" /\ launchTodo[i].line.id = record
            /\ Start!Running => launchPane.runs = record
        /\ state = "active" /\ ~Launching /\ Start!Running => sid = launchPane.runs
        /\ Left => sid = last

NoCapture(steps) == \A i \in DOMAIN steps : steps[i].type # "capture"
NothingCaptured ==
    (\A hook \in {config.start, config.resume, config.exit, config.button} :
        ~Start!Captures(hook))
    => captured = None /\ NoCapture(launchTodo)

(* Where the exit hook asks for the id, it will have captured it.          *)
CaptureNext(steps) == steps # <<>> /\ steps[1] = Start!Capture
LeftCaptured ==
    Start!ByLeaving /\ Left =>
        \/ sid = last /\ captured = last
        \/ Leaving /\ Start!Running /\ Start!AsksLeaving(launchTodo)
        \/ Leaving /\ launchScreen = last /\ CaptureNext(launchTodo)

(* Where every launch asks for the id, it will have captured it.           *)
AsksAtLaunch == /\ config.start # None /\ Start!Asks(config.start)
                /\ config.resume # None /\ Start!Asks(config.resume)
LaunchCaptured ==
    AsksAtLaunch =>
        /\ Launching =>
            \/ Start!Asks(launchTodo)
            \/ /\ NoStarts(launchTodo) /\ CaptureNext(launchTodo)
               /\ Start!Running => launchScreen = launchPane.runs
            \/ /\ NoStarts(launchTodo) /\ ~TypedStart
               /\ Start!Running => captured = launchPane.runs
        /\ ~Launching /\ Start!Running => captured = launchPane.runs
        /\ Left => captured = last

(* A launch that is to continue the conversation that was left still has   *)
(* it to start, or runs it, and nothing that it types ends it.             *)
Continuing ==
    op.kind \in {"resume", "relaunch"} /\ last # None /\ Start!Known =>
        IF Start!Running
        THEN /\ launchPane.runs = last
             /\ launchPane.typed # None => launchPane.typed.do # "exit"
             /\ \A i \in DOMAIN launchTodo :
                   ~Start!Starts(launchTodo[i]) /\ ~Start!MayExit(launchTodo[i])
        ELSE op.running /\ ~TypedStart /\ Start!Gives(launchTodo, last)

LaunchInv ==
    /\ LaunchType /\ TodoShape /\ Exported /\ Prompted /\ Found /\ OnScreen /\ RowNames
    /\ NothingCaptured /\ LeftCaptured /\ LaunchCaptured /\ Continuing

(* What ServerAssumption says of the hooks.                                *)
LEMMA LaunchConstants ==
    /\ None \notin Int /\ None # "profile"
    /\ \A c \in Config :
        /\ c.account \in BOOLEAN /\ c.linked \in BOOLEAN
        /\ c.start = None \/ (c.start \in Start!Hook(c.engine) /\ Start!Entered(c.start))
        /\ c.resume = None \/ (c.resume \in Start!Hook(c.engine) /\ Start!Entered(c.resume))
        /\ c.button = None \/ (c.button \in Start!Hook(c.engine) /\ NoStarts(c.button))
        /\ c.exit = None \/ (/\ c.exit \in Start!Hook(c.engine) /\ NoStarts(c.exit)
                             /\ \E i \in DOMAIN c.exit : Start!Exits(c.exit[i]))
  BY ServerAssumption DEF Start!LaunchAssumption, NoStarts

(* Steps of a kind.                                                        *)
LEMMA KindsOfSteps ==
    ASSUME NEW s \in PaneStep
    PROVE  /\ s.type \in {"shell", "paste", "keystroke", "capture"}
           /\ s.type \in {"shell", "paste"} =>
                /\ s.line \in PaneLine /\ s = [type |-> s.type, line |-> s.line]
                /\ s # Start!Capture /\ \A k : s # Start!Key(k)
           /\ s.type = "keystroke" => /\ s.key \in Start!Keys /\ s = Start!Key(s.key)
                                      /\ s # Start!Capture
           /\ s.type = "capture" => s = Start!Capture /\ \A k : s # Start!Key(k)
  BY DEF PaneStep, PaneLine, Start!Steps, Start!Key, Start!Capture

(* Steps that differ at most in the id and the exports of a line.          *)
Like(s, t) == /\ s.type = t.type
              /\ IF s.type \in {"shell", "paste"} THEN s.line.do = t.line.do ELSE s = t
LEMMA LikeSteps ==
    ASSUME NEW s \in PaneStep, NEW t \in PaneStep, Like(s, t)
    PROVE  /\ Start!Starts(s) <=> Start!Starts(t)
           /\ Start!Exits(s) <=> Start!Exits(t)
           /\ Start!MayExit(s) <=> Start!MayExit(t)
           /\ s = Start!Capture <=> t = Start!Capture
           /\ \A k : s = Start!Key(k) <=> t = Start!Key(k)
  <1>1. CASE s.type \in {"shell", "paste"}
    <2>1. /\ t.type = s.type /\ t.line.do = s.line.do
          /\ s # Start!Capture /\ t # Start!Capture
          /\ \A k : s # Start!Key(k) /\ t # Start!Key(k)
      BY <1>1, KindsOfSteps DEF Like
    <2> QED
      BY <2>1 DEF Start!Starts, Start!Exits, Start!MayExit
  <1>2. CASE s.type \notin {"shell", "paste"}
    BY <1>2 DEF Like
  <1> QED
    BY <1>1, <1>2

(* Hooks that differ at most so, step by step.                             *)
Alike(s, t) == /\ s \in Seq(PaneStep) /\ t \in Seq(PaneStep) /\ Len(s) = Len(t)
               /\ \A i \in 1 .. Len(s) : Like(s[i], t[i])
LEMMA AlikeSteps ==
    ASSUME NEW s, NEW t, Alike(s, t)
    PROVE  /\ DOMAIN s = DOMAIN t /\ DOMAIN s = 1 .. Len(s) /\ Len(s) \in Nat
           /\ \A i \in DOMAIN s :
                /\ s[i] \in PaneStep /\ t[i] \in PaneStep /\ s[i].type = t[i].type
                /\ s[i].type \in {"shell", "paste"} => s[i].line.do = t[i].line.do
                /\ Start!Starts(s[i]) <=> Start!Starts(t[i])
                /\ Start!Exits(s[i]) <=> Start!Exits(t[i])
                /\ Start!MayExit(s[i]) <=> Start!MayExit(t[i])
                /\ s[i] = Start!Capture <=> t[i] = Start!Capture
                /\ \A k : s[i] = Start!Key(k) <=> t[i] = Start!Key(k)
  <1>1. /\ DOMAIN s = DOMAIN t /\ DOMAIN s = 1 .. Len(s) /\ Len(s) \in Nat
        /\ \A i \in DOMAIN s : s[i] \in PaneStep /\ t[i] \in PaneStep /\ Like(s[i], t[i])
    BY DEF Alike
  <1> QED
    BY <1>1, LikeSteps DEF Like

(* They start, end, capture and ask for the id alike.                      *)
LEMMA AlikeHooks ==
    ASSUME NEW s, NEW t, Alike(s, t)
    PROVE  /\ Start!Entered(s) => Start!Entered(t)
           /\ NoStarts(s) => NoStarts(t)
           /\ NoCapture(s) => NoCapture(t)
           /\ Start!Asks(s) => Start!Asks(t)
           /\ Start!AsksLeaving(s) => Start!AsksLeaving(t)
           /\ (\E i \in DOMAIN s : Start!Exits(s[i])) => \E i \in DOMAIN t : Start!Exits(t[i])
  <1>1. /\ DOMAIN s = DOMAIN t /\ Len(s) = Len(t) /\ DOMAIN s = 1 .. Len(s) /\ Len(s) \in Nat
        /\ \A i \in DOMAIN s :
                /\ s[i].type = t[i].type
                /\ s[i].type \in {"shell", "paste"} => s[i].line.do = t[i].line.do
                /\ Start!Starts(s[i]) <=> Start!Starts(t[i])
                /\ Start!Exits(s[i]) <=> Start!Exits(t[i])
                /\ s[i] = Start!Capture <=> t[i] = Start!Capture
                /\ \A k : s[i] = Start!Key(k) <=> t[i] = Start!Key(k)
    BY AlikeSteps DEF Alike
  <1>2. \A i \in DOMAIN s : i < Len(s) => i + 1 \in DOMAIN s
    BY <1>1
  <1>3. Start!Entered(s) => Start!Entered(t)
    BY <1>1, <1>2 DEF Start!Entered
  <1>4. Start!Asks(s) => Start!Asks(t)
    BY <1>1, <1>2 DEF Start!Asks, Start!Shells
  <1>5. Start!AsksLeaving(s) => Start!AsksLeaving(t)
    BY <1>1, <1>2 DEF Start!AsksLeaving
  <1>6. (NoStarts(s) => NoStarts(t)) /\ (NoCapture(s) => NoCapture(t))
    BY <1>1 DEF NoStarts, NoCapture
  <1> QED
    BY <1>1, <1>3, <1>4, <1>5, <1>6

(* Alike is transitive.                                                    *)
LEMMA AlikeTwice == ASSUME NEW s, NEW t, NEW u, Alike(s, t), Alike(t, u) PROVE Alike(s, u)
  <1>1. /\ s \in Seq(PaneStep) /\ u \in Seq(PaneStep) /\ Len(s) = Len(u)
    BY DEF Alike
  <1>2. ASSUME NEW i \in 1 .. Len(s) PROVE Like(s[i], u[i])
    BY Like(s[i], t[i]), Like(t[i], u[i]) DEF Like, Alike
  <1> QED
    BY <1>1, <1>2 DEF Alike

(* A line as a step.                                                       *)
LEMMA LineStep ==
    ASSUME NEW ty \in {"shell", "paste"}, NEW l \in PaneLine
    PROVE  LET s == [type |-> ty, line |-> l]
           IN s \in PaneStep /\ s.type = ty /\ s.line = l
  BY DEF PaneStep, PaneLine, Start!Steps

(* A hook with the id filled in.                                           *)
LEMMA ResolvedHook ==
    ASSUME NEW hook \in Start!Hook(config.engine), NEW id \in IdOrNone, NEW preset
    PROVE  LET r == Start!ResolveHook(hook, preset, id)
           IN hook # None =>
                /\ Alike(hook, r)
                /\ \A i \in DOMAIN hook : hook[i].type = "shell" /\ hook[i].line.id = 0
                                            => r[i].line.id = id
  <1> SUFFICES ASSUME hook # None
               PROVE  LET r == Start!ResolveHook(hook, preset, id)
                      IN /\ Alike(hook, r)
                         /\ \A i \in DOMAIN hook : hook[i].type = "shell" /\ hook[i].line.id = 0
                                            => r[i].line.id = id
    OBVIOUS
  <1> DEFINE r == Start!ResolveHook(hook, preset, id)
             HookStep == Start!Steps(config.engine, {None, Start!Placeholder})
  <1>1. hook \in Seq(HookStep)
    BY DEF Start!Hook
  <1>2. r = [i \in DOMAIN hook |-> Start!Interpolate(hook[i], id)]
    BY DEF Start!ResolveHook
  <1>3. ASSUME NEW s \in HookStep
        PROVE  /\ s \in PaneStep /\ Start!Interpolate(s, id) \in PaneStep
               /\ Like(s, Start!Interpolate(s, id))
               /\ s.type = "shell" /\ s.line.id = 0 => Start!Interpolate(s, id).line.id = id
    <2>1. s \in PaneStep
      BY DEF Start!Steps, Start!Lines, PaneStep, Start!Placeholder
    <2>2. CASE s.type = "shell" /\ s.line.id = Start!Placeholder
      <3>1. s.line \in PaneLine /\ s = [type |-> "shell", line |-> s.line]
        BY <2>1, <2>2, KindsOfSteps
      <3>2. [s.line EXCEPT !.id = id] \in PaneLine /\ [s.line EXCEPT !.id = id].do = s.line.do
            /\ [s.line EXCEPT !.id = id].id = id
        BY <3>1 DEF PaneLine, Start!Lines, IdOrNone
      <3>3. Start!Interpolate(s, id) = [type |-> "shell", line |-> [s.line EXCEPT !.id = id]]
        BY <2>2, <3>1 DEF Start!Interpolate
      <3>4. /\ Start!Interpolate(s, id) \in PaneStep
            /\ Start!Interpolate(s, id).type = "shell"
            /\ Start!Interpolate(s, id).line = [s.line EXCEPT !.id = id]
        BY <3>2, <3>3, LineStep
      <3> QED
        BY <2>1, <2>2, <3>2, <3>4 DEF Like
    <2>3. CASE ~(s.type = "shell" /\ s.line.id = Start!Placeholder)
      BY <2>1, <2>3 DEF Start!Interpolate, Like, Start!Placeholder
    <2> QED
      BY <2>2, <2>3
  <1>4. DOMAIN hook = 1 .. Len(hook) /\ Len(hook) \in Nat
        /\ \A i \in DOMAIN hook : hook[i] \in HookStep
    BY <1>1
  <1> HIDE DEF HookStep, r
  <1>5. r = [i \in 1 .. Len(hook) |-> Start!Interpolate(hook[i], id)]
    BY <1>2, <1>4
  <1>6. \A i \in 1 .. Len(hook) :
            /\ hook[i] \in PaneStep /\ r[i] \in PaneStep /\ Like(hook[i], r[i])
            /\ hook[i].type = "shell" /\ hook[i].line.id = 0 => r[i].line.id = id
    BY <1>3, <1>4, <1>5
  <1>7. hook \in Seq(PaneStep) /\ r \in Seq(PaneStep) /\ Len(r) = Len(hook)
    <2>1. hook = [i \in 1 .. Len(hook) |-> hook[i]]
      BY <1>1, <1>4
    <2> QED
      BY <1>4, <1>5, <1>6, <2>1
  <1>8. Alike(hook, r)
    BY <1>6, <1>7 DEF Alike
  <1> QED
    BY <1>4, <1>6, <1>8 DEF r

(* Every non-empty set of numbers has a least one.                         *)
LEMMA LeastNumber ==
    ASSUME NEW S \in SUBSET Nat, S # {}
    PROVE  \E n \in S : \A m \in S : n <= m
  <1>1. PICK n \in S : \A m \in S : ~ (<<m, n>> \in OpToRel(<, Nat))
    BY NatLessThanWellFounded, WFMin
  <1>2. \A m \in S : ~(m < n)
    BY <1>1 DEF OpToRel
  <1> QED
    BY <1>2

(* The steps of a launch: the first command exports the name.              *)
LEMMA WrappedSteps ==
    ASSUME NEW s \in Seq(PaneStep)
    PROVE  LET w == Start!WrapLaunch(s)
           IN /\ Alike(s, w)
              /\ \A i \in DOMAIN s : s[i].type = "shell" => w[i].line.id = s[i].line.id
              /\ (\E i \in DOMAIN s : s[i].type = "shell"
                     /\ \A j \in DOMAIN s : j < i => s[j] # Start!Key("Enter"))
                    => ExportFirst(w)
  <1> DEFINE w == Start!WrapLaunch(s)
             First(i) == i \in Start!Shells(s) /\ \A j \in Start!Shells(s) : i <= j
  <1>1. \A i \in DOMAIN s : s[i] \in PaneStep
    OBVIOUS
  <1>2. DOMAIN w = DOMAIN s
        /\ \A i \in DOMAIN s : w[i] = IF First(i) THEN [s[i] EXCEPT !.line.export = TRUE] ELSE s[i]
    BY DEF Start!WrapLaunch
  <1>3. ASSUME NEW i \in DOMAIN s
        PROVE  /\ w[i] \in PaneStep /\ Like(s[i], w[i])
               /\ s[i].type = "shell" => w[i].line.id = s[i].line.id
               /\ First(i) => w[i].line.export
    <2>1. CASE First(i)
      <3>1. s[i].type = "shell"
        BY <2>1 DEF Start!Shells
      <3>2. s[i].line \in PaneLine /\ s[i] = [type |-> "shell", line |-> s[i].line]
        BY <1>1, <3>1, KindsOfSteps
      <3> DEFINE l == [s[i].line EXCEPT !.export = TRUE]
      <3>3. l \in PaneLine /\ l.do = s[i].line.do /\ l.id = s[i].line.id /\ l.export
        BY <3>2 DEF PaneLine, Start!Lines
      <3>4. w[i] = [type |-> "shell", line |-> l]
        BY <1>2, <2>1, <3>2
      <3> HIDE DEF l
      <3>5. w[i] \in PaneStep /\ w[i].type = "shell" /\ w[i].line = l
        BY <3>3, <3>4, LineStep
      <3> QED
        BY <3>1, <3>3, <3>5 DEF Like
    <2>2. CASE ~First(i)
      BY <1>1, <1>2, <2>2 DEF Like
    <2> QED
      BY <2>1, <2>2
  <1>4. DOMAIN s = 1 .. Len(s) /\ Len(s) \in Nat
    OBVIOUS
  <1>5. w \in Seq(PaneStep) /\ Len(w) = Len(s)
    <2>1. w = [i \in 1 .. Len(s) |-> w[i]]
      BY <1>4 DEF Start!WrapLaunch
    <2> HIDE DEF w
    <2> QED
      BY <1>3, <1>4, <2>1
  <1> HIDE DEF w
  <1>6. Alike(s, w)
    BY <1>3, <1>4, <1>5 DEF Alike
  <1>7. ASSUME NEW i \in DOMAIN s, s[i].type = "shell",
               \A j \in DOMAIN s : j < i => s[j] # Start!Key("Enter")
        PROVE  ExportFirst(w)
    <2>1. Start!Shells(s) \in SUBSET Nat /\ i \in Start!Shells(s)
      BY <1>4, <1>7 DEF Start!Shells
    <2>2. PICK n \in Start!Shells(s) : \A m \in Start!Shells(s) : n <= m
      BY <2>1, LeastNumber
    <2>3. First(n) /\ n \in DOMAIN s /\ s[n].type = "shell" /\ n <= i /\ n \in Nat /\ i \in Nat
      BY <1>4, <2>1, <2>2 DEF Start!Shells
    <2>4. w[n].type = "shell" /\ w[n].line.export
      BY <1>3, <2>3 DEF Like
    <2>5. ASSUME NEW j \in 1 .. n - 1
          PROVE  w[j].type # "shell" /\ w[j] # Start!Key("Enter")
      <3>1. j \in DOMAIN s /\ j < n /\ j < i
        BY <1>4, <2>3
      <3>2. s[j].type # "shell" /\ s[j] # Start!Key("Enter")
        BY <1>7, <2>2, <3>1, <1>4 DEF Start!Shells
      <3> QED
        BY <1>6, <3>1, <3>2, AlikeSteps
    <2> QED
      BY <1>2, <2>3, <2>4, <2>5 DEF ExportFirst
  <1> QED
    BY <1>3, <1>6, <1>7 DEF w

(* Steps that give the CLI an id start no other.                           *)
LEMMA GivenId ==
    ASSUME NEW s, NEW id, Start!Gives(s, id)
    PROVE  \A i \in DOMAIN s : Start!Starts(s[i]) => s[i].type = "shell" /\ s[i].line.id = id
  BY DEF Start!Gives, Start!Shells

(* What a launch types, by a hook or by the adapter behind it.             *)
LaunchSteps(hook, l, id) == Start!WrapLaunch(Start!ResolveHook(hook, <<Start!Shell(l)>>, id))
LEMMA StepsOfLaunch ==
    ASSUME config \in Config, NEW hook \in {config.start, config.resume}, NEW id \in IdOrNone,
           NEW l \in PaneLine, l.do \in {"start", "resume"}
    PROVE  LET steps == LaunchSteps(hook, l, id)
           IN /\ steps \in Seq(PaneStep) /\ Start!Entered(steps)
              /\ ~Start!Keyed(hook) => ExportFirst(steps)
              /\ Start!GivesId(hook) /\ l.id = id => Start!Gives(steps, id)
              /\ ~Start!Captures(hook) => NoCapture(steps)
              /\ hook # None /\ Start!Asks(hook) => Start!Asks(steps)
  <1> DEFINE r == Start!ResolveHook(hook, <<Start!Shell(l)>>, id)
             steps == LaunchSteps(hook, l, id)
  <1>1. CASE hook = None
    <2>1. r = <<Start!Shell(l)>>
      BY <1>1 DEF Start!ResolveHook
    <2>2. /\ Start!Shell(l) \in PaneStep /\ Start!Shell(l).type = "shell"
          /\ Start!Shell(l).line = l
      BY LineStep DEF Start!Shell
    <2> DEFINE x == Start!Shell(l)
    <2> HIDE DEF x
    <2>9. r = <<x>> /\ x \in PaneStep /\ x.type = "shell" /\ x.line = l
      BY <2>1, <2>2 DEF x
    <2>3. /\ r \in Seq(PaneStep) /\ Len(r) = 1 /\ DOMAIN r = {1} /\ r[1].type = "shell"
          /\ r[1].line = l
      <3> HIDE DEF r
      <3> QED
        BY <2>9
    <2> HIDE DEF r
    <2>4. Alike(r, steps) /\ steps[1].line.id = l.id /\ ExportFirst(steps)
      <3>1. \A j \in DOMAIN r : ~(j < 1)
        BY <2>3
      <3>2. /\ Alike(r, steps)
            /\ \A i \in DOMAIN r : r[i].type = "shell" => steps[i].line.id = r[i].line.id
            /\ (\E i \in DOMAIN r : r[i].type = "shell"
                     /\ \A j \in DOMAIN r : j < i => r[j] # Start!Key("Enter"))
                    => ExportFirst(steps)
        BY <2>3, WrappedSteps DEF LaunchSteps, r
      <3> QED
        BY <2>3, <3>1, <3>2
    <2>5. /\ steps \in Seq(PaneStep) /\ DOMAIN steps = {1} /\ steps[1].type = "shell"
          /\ steps[1].line.do = l.do /\ Start!Starts(steps[1])
      <3>1. Start!Starts(r[1])
        BY <2>3 DEF Start!Starts
      <3> QED
        BY <2>3, <2>4, <3>1, AlikeSteps DEF Alike
    <2> HIDE DEF steps
    <2>6. Start!Entered(steps) /\ NoCapture(steps)
      BY <2>5 DEF Start!Entered, NoCapture
    <2>7. l.id = id => Start!Gives(steps, id)
      BY <2>4, <2>5 DEF Start!Gives, Start!Shells
    <2> QED
      BY <1>1, <2>4, <2>5, <2>6, <2>7 DEF steps
  <1>2. CASE hook # None
    <2>1. hook \in Start!Hook(config.engine) /\ Start!Entered(hook)
      BY <1>2, LaunchConstants
    <2>2. /\ Alike(hook, r)
          /\ \A i \in DOMAIN hook : hook[i].type = "shell" /\ hook[i].line.id = 0 => r[i].line.id = id
      BY <1>2, <2>1, ResolvedHook
    <2> HIDE DEF r
    <2>3. /\ Alike(r, steps)
          /\ \A i \in DOMAIN r : r[i].type = "shell" => steps[i].line.id = r[i].line.id
          /\ (\E i \in DOMAIN r : r[i].type = "shell"
                     /\ \A j \in DOMAIN r : j < i => r[j] # Start!Key("Enter"))
                    => ExportFirst(steps)
      BY <2>2, WrappedSteps DEF LaunchSteps, r, Alike
    <2> HIDE DEF steps
    <2>4. Alike(hook, steps)
      BY <2>2, <2>3, AlikeTwice
    <2>5. /\ steps \in Seq(PaneStep) /\ Start!Entered(steps)
          /\ NoCapture(hook) => NoCapture(steps)
          /\ Start!Asks(hook) => Start!Asks(steps)
      BY <2>1, <2>4, AlikeHooks DEF Alike
    <2>6. ~Start!Captures(hook) => NoCapture(steps)
      BY <1>2, <2>5 DEF Start!Captures, NoCapture
    <2>7. ASSUME ~Start!Keyed(hook) PROVE ExportFirst(steps)
      <3>1. PICK i \in DOMAIN hook : hook[i].type = "shell"
                     /\ \A j \in DOMAIN hook : j < i => hook[j] # Start!Key("Enter")
        BY <1>2, <2>7 DEF Start!Keyed, Start!Shells
      <3>2. i \in DOMAIN r /\ r[i].type = "shell"
            /\ \A j \in DOMAIN r : j < i => r[j] # Start!Key("Enter")
        BY <2>2, <3>1, AlikeSteps
      <3> QED
        BY <2>3, <3>2
    <2>8. ASSUME Start!GivesId(hook) PROVE Start!Gives(steps, id)
      <3>1. PICK i \in DOMAIN hook :
                /\ hook[i].type = "shell" /\ Start!Starts(hook[i]) /\ hook[i].line.id = 0
                /\ \A j \in DOMAIN hook \ {i} : ~Start!Starts(hook[j]) /\ ~Start!MayExit(hook[j])
        BY <1>2, <2>8 DEF Start!GivesId, Start!Gives, Start!Shells, Start!Placeholder
      <3>2. r[i].type = "shell" /\ r[i].line.id = id /\ DOMAIN r = DOMAIN hook
        BY <2>2, <3>1, AlikeSteps
      <3>3. steps[i].line.id = id
        BY <2>3, <3>1, <3>2
      <3>4. /\ DOMAIN steps = DOMAIN hook /\ steps[i].type = "shell" /\ Start!Starts(steps[i])
            /\ \A j \in DOMAIN steps \ {i} : ~Start!Starts(steps[j]) /\ ~Start!MayExit(steps[j])
        BY <2>4, <3>1, AlikeSteps
      <3> QED
        BY <3>1, <3>3, <3>4 DEF Start!Gives, Start!Shells
    <2> QED
      BY <1>2, <2>5, <2>6, <2>7, <2>8 DEF steps
  <1> QED
    BY <1>1, <1>2

(* What a line does: it starts a CLI, ends it, has it show its id, or      *)
(* leaves what runs as it is.                                              *)
Began(l) ==
    /\ ~Start!Running /\ l.do \in {"start", "resume"} /\ launchPane'.runs \in Nat \ {0}
    /\ l.id \in Nat \ {0} => launchPane'.runs = l.id
    /\ launchScreen' = None
    /\ launchPane'.prompt \in {None, op.persona}
          \/ (launchPane'.prompt = profile /\ Start!UsesProfile(config.engine))
    /\ config.linked \/ (~config.account /\ launchPane.home = "real")
          => InReal(launchPane'.runs) \in talks'
Ended == /\ Start!Running /\ launchPane'.runs = None /\ launchPane'.prompt = None
         /\ launchScreen' = (IF config.engine = "claude" THEN None ELSE launchPane.runs)
         /\ talks' = talks
Told == /\ Start!Running /\ UNCHANGED <<launchPane.runs, launchPane.prompt, talks>>
        /\ launchScreen' = launchPane.runs
Ignored == UNCHANGED <<launchPane.runs, launchPane.prompt, launchScreen, talks>>

(* The line of an exit hook that is not set.                               *)
LEMMA ExitLine ==
    /\ Start!Line("exit", None, None) \in PaneLine
    /\ Start!Line("exit", None, None).do = "exit"
    /\ Start!Line("exit", None, None).id = None
  <1> DEFINE P == Start!Prompts(config.engine)
  <1>1. None \in P
    BY Zenon DEF Start!Prompts
  <1> HIDE DEF P
  <1>2. [do |-> "exit", id |-> None, prompt |-> None, export |-> FALSE]
            \in [do : Start!Verbs, id : Nat \cup {None}, prompt : P, export : BOOLEAN]
    BY <1>1 DEF Start!Verbs
  <1>3. PaneLine = [do : Start!Verbs, id : Nat \cup {None}, prompt : P, export : BOOLEAN]
    BY DEF PaneLine, Start!Lines, P
  <1>4. Start!Line("exit", None, None)
            = [do |-> "exit", id |-> None, prompt |-> None, export |-> FALSE]
    BY DEF Start!Line
  <1>5. Start!Line("exit", None, None) \in PaneLine
    BY <1>2, <1>3, <1>4
  <1> QED
    BY <1>4, <1>5

(* A line that starts a CLI with a conversation that it finds.             *)
Findable(l) == /\ l.do \in {"start", "resume"} /\ l.id \in Nat \ {0} /\ InReal(l.id) \in talks
               /\ config.linked \/ (~config.account /\ launchPane.home = "real")

Effect(l) ==
    /\ launchPane' \in PaneRecord /\ launchScreen' \in IdOrNone /\ issued' \in Nat
    /\ talks' \subseteq Talk /\ talks \subseteq talks'
    /\ launchPane'.typed = None /\ launchPane'.open = launchPane.open
    /\ ~config.account => launchPane'.home = launchPane.home
    /\ launchPane.export => launchPane'.export
    /\ ~Start!Running /\ l.export => launchPane'.export
    /\ \/ Began(l)
       \/ l.do = "exit" /\ Ended
       \/ l.do = "status" /\ Told
       \/ /\ Ignored
          /\ Start!Running => l.do # "exit" /\ l.do # "status"
          /\ Findable(l) => Start!Running

(* What the shell or the CLI makes of a line.                              *)
LEMMA SubmitDoes ==
    ASSUME LaunchType, NEW l \in PaneLine, Start!Submit(l)
    PROVE  Effect(l)
  <1> DEFINE fresh == l.do = "start" /\ l.id \in {None, Start!Placeholder}
             id == IF fresh THEN Start!Fresh ELSE l.id
             home == Start!HomeFor(l)
             talk == [id |-> id, home |-> IF config.linked THEN "real" ELSE home]
             found == l.do = "start" \/ talk \in talks
             shell == [launchPane EXCEPT !.export = @ \/ l.export, !.typed = None, !.home = home]
             prompt == CASE l.prompt = "inline" -> op.persona
                         [] l.prompt = "profile" -> profile
                         [] OTHER -> None
             starts == ~Start!Running /\ l.do \in {"start", "resume"} /\ found
             ends == Start!Running /\ l.do = "exit"
             tells == Start!Running /\ l.do = "status"
  <1>1. /\ launchPane \in PaneRecord /\ talks \subseteq Talk /\ issued \in Nat
        /\ launchScreen \in IdOrNone /\ launchPane.runs \in IdOrNone
        /\ launchPane.home \in {"real", "own"} /\ launchPane.export \in BOOLEAN
        /\ l.export \in BOOLEAN /\ l.id \in Nat \cup {None}
        /\ op.persona \in Nat /\ profile \in Int /\ None \notin Int
        /\ l.prompt = "profile" => Start!UsesProfile(config.engine)
    <2>1. l.prompt \in Start!Prompts(config.engine) /\ l.export \in BOOLEAN
          /\ l.id \in Nat \cup {None}
      BY DEF PaneLine, Start!Lines
    <2>2. "profile" # None /\ "profile" # "inline"
      BY LaunchConstants
    <2>3. l.prompt = "profile" => Start!UsesProfile(config.engine)
      BY <2>1, <2>2 DEF Start!Prompts
    <2> QED
      BY <2>1, <2>3, LaunchConstants DEF LaunchType, PaneRecord
  <1>2. home \in {"real", "own"} /\ (~config.account => home = launchPane.home)
    BY <1>1 DEF Start!HomeFor, Start!OwnHome
  <1>3. /\ prompt \in {None, op.persona} \/ (prompt = profile /\ Start!UsesProfile(config.engine))
        /\ prompt \in Int \cup {None}
    BY <1>1
  <1> DEFINE home2 == IF config.linked THEN "real" ELSE home
  <1>4. talk = [id |-> id, home |-> home2] /\ home2 \in {"real", "own"}
        /\ (config.linked \/ (~config.account /\ launchPane.home = "real") => home2 = "real")
    BY <1>2
  <1>5. found => id \in Nat \ {0}
    <2>1. CASE l.do = "start"
      BY <1>1, <2>1 DEF Start!Fresh, Start!Placeholder
    <2>2. CASE talk \in talks
      <3>1. talk \in Talk /\ talk.id = id
        BY <1>1, <2>2
      <3> QED
        BY <3>1 DEF Talk
    <2> QED
      BY <2>1, <2>2
  <1>6. \A n \in Nat \ {0} : l.id = n => id = n
    BY <1>1 DEF Start!Placeholder
  <1> HIDE DEF home, home2, prompt
  <1>7. /\ shell \in PaneRecord /\ shell.typed = None /\ shell.open = launchPane.open
        /\ shell.runs = launchPane.runs /\ shell.prompt = launchPane.prompt
        /\ shell.home = home /\ shell.export = (launchPane.export \/ l.export)
    BY <1>1, <1>2 DEF PaneRecord
  <1>8. CASE starts
    <2>1. /\ launchPane' = [shell EXCEPT !.runs = id, !.prompt = prompt]
          /\ talks' = talks \cup {talk}
          /\ issued' = IF id = Start!Fresh THEN Start!Fresh ELSE issued
          /\ launchScreen' = None
      BY <1>8 DEF Start!Submit, home, prompt
    <2> HIDE DEF shell
    <2>2. id \in Nat \ {0}
      BY <1>5, <1>8
    <2> HIDE DEF id
    <2>3. /\ launchPane' \in PaneRecord /\ launchPane'.runs = id /\ launchPane'.prompt = prompt
          /\ launchPane'.typed = None /\ launchPane'.open = launchPane.open
          /\ launchPane'.home = home /\ launchPane'.export = (launchPane.export \/ l.export)
      BY <1>3, <1>7, <2>1, <2>2 DEF PaneRecord, IdOrNone
    <2>4. talk \in Talk /\ issued' \in Nat
      BY <1>1, <1>4, <2>1, <2>2 DEF Talk, Start!Fresh
    <2>5. config.linked \/ (~config.account /\ launchPane.home = "real")
              => InReal(id) \in talks'
      BY <1>4, <2>1 DEF InReal
    <2>6. Began(l)
      BY <1>3, <1>6, <1>8, <2>1, <2>2, <2>3, <2>5 DEF Began
    <2> QED
      BY <1>1, <1>2, <2>1, <2>3, <2>4, <2>6 DEF Effect, IdOrNone
  <1>9. CASE ends
    <2>1. /\ launchPane' = [launchPane EXCEPT !.runs = None, !.typed = None, !.prompt = None]
          /\ launchScreen' = (IF config.engine = "claude" THEN None ELSE launchPane.runs)
          /\ UNCHANGED <<talks, issued>>
      BY <1>9 DEF Start!Submit
    <2>2. /\ launchPane' \in PaneRecord /\ launchPane'.runs = None /\ launchPane'.prompt = None
          /\ launchPane'.typed = None /\ launchPane'.open = launchPane.open
          /\ launchPane'.home = launchPane.home /\ launchPane'.export = launchPane.export
      BY <1>1, <2>1 DEF PaneRecord, IdOrNone
    <2> QED
      BY <1>1, <1>9, <2>1, <2>2 DEF Effect, Ended, IdOrNone
  <1>10. CASE tells
    <2>1. /\ launchPane' = [launchPane EXCEPT !.typed = None]
          /\ launchScreen' = launchPane.runs
          /\ UNCHANGED <<talks, issued>>
      BY <1>10 DEF Start!Submit
    <2>2. /\ launchPane' \in PaneRecord /\ launchPane'.runs = launchPane.runs
          /\ launchPane'.prompt = launchPane.prompt
          /\ launchPane'.typed = None /\ launchPane'.open = launchPane.open
          /\ launchPane'.home = launchPane.home /\ launchPane'.export = launchPane.export
      BY <1>1, <2>1 DEF PaneRecord
    <2> QED
      BY <1>1, <1>10, <2>1, <2>2 DEF Effect, Told
  <1>11. CASE ~starts /\ ~ends /\ ~tells
    <2>1. /\ launchPane' = IF Start!Running THEN [launchPane EXCEPT !.typed = None] ELSE shell
          /\ UNCHANGED <<launchScreen, talks, issued>>
      BY <1>11 DEF Start!Submit, home, prompt
    <2>2. /\ launchPane' \in PaneRecord /\ launchPane'.runs = launchPane.runs
          /\ launchPane'.prompt = launchPane.prompt
          /\ launchPane'.typed = None /\ launchPane'.open = launchPane.open
          /\ (~config.account => launchPane'.home = launchPane.home)
          /\ (launchPane.export => launchPane'.export)
          /\ ~Start!Running /\ l.export => launchPane'.export
      BY <1>1, <1>2, <1>7, <2>1 DEF PaneRecord
    <2>3. Findable(l) => Start!Running
      BY <1>4, <1>6, <1>11 DEF InReal, Findable
    <2> QED
      BY <1>1, <1>11, <2>1, <2>2, <2>3 DEF Effect, Ignored
  <1> QED
    BY <1>8, <1>9, <1>10, <1>11

(* The steps after the first.                                              *)
LEMMA TailSteps ==
    ASSUME NEW s \in Seq(PaneStep), s # <<>>
    PROVE  /\ Tail(s) \in Seq(PaneStep) /\ s[1] \in PaneStep /\ 1 \in DOMAIN s /\ Head(s) = s[1]
           /\ Len(s) \in Nat /\ Len(Tail(s)) = Len(s) - 1 /\ DOMAIN s = 1 .. Len(s)
           /\ DOMAIN Tail(s) = 1 .. Len(s) - 1
           /\ \A i \in DOMAIN Tail(s) : i + 1 \in DOMAIN s /\ Tail(s)[i] = s[i + 1]
           /\ \A i \in DOMAIN s : i = 1 \/ (i - 1 \in DOMAIN Tail(s) /\ Tail(s)[i - 1] = s[i])
           /\ Tail(s) # <<>> <=> Len(s) > 1
  <1>1. /\ Tail(s) \in Seq(PaneStep) /\ Len(s) \in Nat \ {0} /\ Head(s) = s[1]
        /\ DOMAIN s = 1 .. Len(s) /\ Len(Tail(s)) = Len(s) - 1
        /\ DOMAIN Tail(s) = 1 .. Len(s) - 1
        /\ \A i \in 1 .. Len(s) - 1 : Tail(s)[i] = s[i + 1]
    OBVIOUS
  <1>2. Tail(s) # <<>> <=> Len(s) > 1
    <2>1. ASSUME NEW t \in Seq(PaneStep) PROVE t # <<>> <=> Len(t) > 0
      OBVIOUS
    <2>2. Tail(s) # <<>> <=> Len(Tail(s)) > 0
      BY <2>1, Tail(s) \in Seq(PaneStep)
    <2> QED
      BY <1>1, <2>2
  <1>3. \A i \in 1 .. Len(s) : i = 1 \/ (i - 1 \in 1 .. Len(s) - 1 /\ Tail(s)[i - 1] = s[i])
    <2> SUFFICES ASSUME NEW i \in 1 .. Len(s), i # 1
                 PROVE  i - 1 \in 1 .. Len(s) - 1 /\ Tail(s)[i - 1] = s[i]
      OBVIOUS
    <2>1. i - 1 \in 1 .. Len(s) - 1 /\ (i - 1) + 1 = i
      BY <1>1
    <2> QED
      BY <1>1, <2>1
  <1> QED
    BY <1>1, <1>2, <1>3

(* What holds of a hook holds of what is left of it.                       *)
LEMMA TailHooks ==
    ASSUME NEW s \in Seq(PaneStep), s # <<>>
    PROVE  /\ Start!Entered(s) =>
                /\ Start!Entered(Tail(s))
                /\ Start!Starts(s[1]) /\ s[1].type = "paste" =>
                      Tail(s) # <<>> /\ Tail(s)[1] = Start!Key("Enter")
           /\ NoStarts(s) => NoStarts(Tail(s)) /\ ~Start!Starts(s[1])
           /\ NoCapture(s) => NoCapture(Tail(s)) /\ s[1].type # "capture"
           /\ (\E i \in DOMAIN s : Start!Exits(s[i])) =>
                Start!Exits(s[1]) \/ \E i \in DOMAIN Tail(s) : Start!Exits(Tail(s)[i])
  <1> DEFINE t == Tail(s)
  <1>1. /\ 1 \in DOMAIN s /\ Len(s) \in Nat /\ Len(t) = Len(s) - 1 /\ DOMAIN s = 1 .. Len(s)
        /\ DOMAIN t = 1 .. Len(s) - 1
        /\ \A i \in DOMAIN t : i + 1 \in DOMAIN s /\ t[i] = s[i + 1]
        /\ \A i \in DOMAIN s : i = 1 \/ (i - 1 \in DOMAIN t /\ t[i - 1] = s[i])
        /\ t # <<>> <=> Len(s) > 1
    BY TailSteps
  <1> HIDE DEF t
  <1>2. ASSUME Start!Entered(s)
        PROVE  /\ Start!Entered(t)
               /\ Start!Starts(s[1]) /\ s[1].type = "paste" => t # <<>> /\ t[1] = Start!Key("Enter")
    <2>1. ASSUME NEW i \in DOMAIN t, Start!Starts(t[i]), t[i].type = "paste"
          PROVE  i < Len(t) /\ t[i + 1] = Start!Key("Enter")
      <3>1. i + 1 \in DOMAIN s /\ t[i] = s[i + 1] /\ i \in Nat
        BY <1>1
      <3>2. i + 1 < Len(s) /\ s[(i + 1) + 1] = Start!Key("Enter")
        BY <1>2, <2>1, <3>1 DEF Start!Entered
      <3>3. i < Len(t) /\ i + 1 \in DOMAIN t
        BY <1>1, <3>1, <3>2
      <3> QED
        BY <1>1, <3>2, <3>3
    <2>2. ASSUME Start!Starts(s[1]), s[1].type = "paste"
          PROVE  t # <<>> /\ t[1] = Start!Key("Enter")
      <3>1. 1 < Len(s) /\ s[1 + 1] = Start!Key("Enter")
        BY <1>1, <1>2, <2>2 DEF Start!Entered
      <3>2. 1 \in DOMAIN t
        BY <1>1, <3>1
      <3> QED
        BY <1>1, <3>1, <3>2
    <2> QED
      BY <2>1, <2>2 DEF Start!Entered
  <1>3. NoStarts(s) => NoStarts(t) /\ ~Start!Starts(s[1])
    BY <1>1 DEF NoStarts
  <1>4. NoCapture(s) => NoCapture(t) /\ s[1].type # "capture"
    BY <1>1 DEF NoCapture
  <1>5. (\E i \in DOMAIN s : Start!Exits(s[i])) =>
                Start!Exits(s[1]) \/ \E i \in DOMAIN t : Start!Exits(t[i])
    BY <1>1
  <1> QED
    BY <1>2, <1>3, <1>4, <1>5 DEF t

(* The first command of a launch exports, now or later.                    *)
LEMMA TailExports ==
    ASSUME NEW s \in Seq(PaneStep), s # <<>>, ExportFirst(s)
    PROVE  \/ s[1].type = "shell" /\ s[1].line.export
           \/ s[1].type # "shell" /\ s[1] # Start!Key("Enter") /\ ExportFirst(Tail(s))
  <1> DEFINE t == Tail(s)
  <1>1. /\ Len(s) \in Nat /\ DOMAIN s = 1 .. Len(s) /\ DOMAIN t = 1 .. Len(s) - 1
        /\ \A i \in DOMAIN t : i + 1 \in DOMAIN s /\ t[i] = s[i + 1]
        /\ \A i \in DOMAIN s : i = 1 \/ (i - 1 \in DOMAIN t /\ t[i - 1] = s[i])
    BY TailSteps
  <1> HIDE DEF t
  <1>2. PICK i \in DOMAIN s :
          /\ s[i].type = "shell" /\ s[i].line.export
          /\ \A j \in 1 .. i - 1 : s[j].type # "shell" /\ s[j] # Start!Key("Enter")
    BY DEF ExportFirst
  <1>3. CASE i # 1
    <2>1. i \in Nat /\ 1 \in 1 .. i - 1 /\ i - 1 \in DOMAIN t /\ t[i - 1] = s[i]
      BY <1>1, <1>3
    <2>2. ASSUME NEW j \in 1 .. (i - 1) - 1
          PROVE  t[j].type # "shell" /\ t[j] # Start!Key("Enter")
      <3>1. j \in DOMAIN t /\ j + 1 \in 1 .. i - 1
        BY <1>1, <2>1
      <3> QED
        BY <1>1, <1>2, <3>1
    <2> QED
      BY <1>2, <2>1, <2>2 DEF ExportFirst, t
  <1> QED
    BY <1>2, <1>3

(* A hook that captures the id before, or when, it ends the CLI.           *)
Tells(s) == \/ s.type = "shell" /\ s.line.do = "status"
            \/ config.engine # "claude" /\ Start!Exits(s)
LEMMA TailAsksLeaving ==
    ASSUME NEW s \in Seq(PaneStep), s # <<>>, Start!AsksLeaving(s)
    PROVE  \/ Tells(s[1]) /\ CaptureNext(Tail(s))
           \/ /\ ~Start!Exits(s[1]) /\ s[1] # Start!Key("Enter")
              /\ Start!AsksLeaving(Tail(s))
  <1> DEFINE t == Tail(s)
  <1>1. /\ Len(s) \in Nat /\ DOMAIN s = 1 .. Len(s) /\ DOMAIN t = 1 .. Len(s) - 1
        /\ Len(t) = Len(s) - 1
        /\ \A i \in DOMAIN t : i + 1 \in DOMAIN s /\ t[i] = s[i + 1]
        /\ \A i \in DOMAIN s : i = 1 \/ (i - 1 \in DOMAIN t /\ t[i - 1] = s[i])
        /\ t # <<>> <=> Len(s) > 1
    BY TailSteps
  <1> HIDE DEF t
  <1>2. PICK i \in DOMAIN s :
          /\ Tells(s[i]) /\ i < Len(s) /\ s[i + 1] = Start!Capture
          /\ \A j \in DOMAIN s : j < i => ~Start!Exits(s[j]) /\ s[j] # Start!Key("Enter")
    BY DEF Start!AsksLeaving, Tells
  <1>3. CASE i # 1
    <2>1. i \in Nat /\ 1 \in DOMAIN s /\ 1 < i /\ i - 1 \in DOMAIN t /\ t[i - 1] = s[i]
          /\ i \in DOMAIN t /\ i - 1 < Len(t) /\ (i - 1) + 1 = i
      BY <1>1, <1>2, <1>3
    <2>2. ASSUME NEW j \in DOMAIN t, j < i - 1
          PROVE  ~Start!Exits(t[j]) /\ t[j] # Start!Key("Enter")
      <3>1. j + 1 \in DOMAIN s /\ t[j] = s[j + 1] /\ j + 1 < i
        BY <1>1, <2>1, <2>2
      <3> QED
        BY <1>2, <3>1
    <2>3. t[(i - 1) + 1] = Start!Capture
      BY <1>1, <1>2, <2>1
    <2>4. Start!AsksLeaving(t)
      BY <1>2, <2>1, <2>2, <2>3 DEF Start!AsksLeaving, Tells
    <2> QED
      BY <1>2, <2>1, <2>4 DEF t
  <1>4. CASE i = 1
    <2>1. t # <<>> /\ 1 \in DOMAIN t /\ t[1] = s[1 + 1]
      BY <1>1, <1>2, <1>4
    <2> QED
      BY <1>2, <1>4, <2>1 DEF CaptureNext, t
  <1> QED
    BY <1>3, <1>4

(* A hook that asks the CLI for its id.                                    *)
LEMMA TailAsks ==
    ASSUME NEW s \in Seq(PaneStep), s # <<>>, Start!Asks(s)
    PROVE  \/ /\ s[1].type = "shell" /\ s[1].line.do = "status"
              /\ CaptureNext(Tail(s)) /\ NoStarts(Tail(s))
           \/ Start!Asks(Tail(s))
  <1> DEFINE t == Tail(s)
  <1>1. /\ Len(s) \in Nat /\ DOMAIN s = 1 .. Len(s) /\ DOMAIN t = 1 .. Len(s) - 1
        /\ Len(t) = Len(s) - 1
        /\ \A i \in DOMAIN t : i + 1 \in DOMAIN s /\ t[i] = s[i + 1]
        /\ \A i \in DOMAIN s : i = 1 \/ (i - 1 \in DOMAIN t /\ t[i - 1] = s[i])
        /\ t # <<>> <=> Len(s) > 1
    BY TailSteps
  <1> HIDE DEF t
  <1>2. PICK i \in DOMAIN s :
          /\ s[i].type = "shell" /\ s[i].line.do = "status" /\ i < Len(s)
          /\ s[i + 1] = Start!Capture
          /\ \A j \in DOMAIN s : j > i => ~Start!Starts(s[j])
    BY DEF Start!Asks, Start!Shells
  <1>3. CASE i # 1
    <2>1. i \in Nat /\ i - 1 \in DOMAIN t /\ t[i - 1] = s[i] /\ i \in DOMAIN t
          /\ i - 1 < Len(t) /\ (i - 1) + 1 = i
      BY <1>1, <1>2, <1>3
    <2>2. ASSUME NEW j \in DOMAIN t, j > i - 1 PROVE ~Start!Starts(t[j])
      <3>1. j + 1 \in DOMAIN s /\ t[j] = s[j + 1] /\ j + 1 > i
        BY <1>1, <2>1, <2>2
      <3> QED
        BY <1>2, <3>1
    <2>3. t[(i - 1) + 1] = Start!Capture
      BY <1>1, <1>2, <2>1
    <2>4. i - 1 \in Start!Shells(t) /\ t[i - 1].line.do = "status"
      BY <1>2, <2>1 DEF Start!Shells
    <2> QED
      BY <2>1, <2>2, <2>3, <2>4 DEF Start!Asks, t
  <1>4. CASE i = 1
    <2>1. t # <<>> /\ 1 \in DOMAIN t /\ t[1] = s[1 + 1]
      BY <1>1, <1>2, <1>4
    <2>2. NoStarts(t)
      <3> SUFFICES ASSUME NEW j \in DOMAIN t PROVE ~Start!Starts(t[j])
        BY DEF NoStarts
      <3>1. j + 1 \in DOMAIN s /\ t[j] = s[j + 1] /\ j + 1 > 1
        BY <1>1
      <3> QED
        BY <1>2, <1>4, <3>1
    <2> QED
      BY <1>2, <1>4, <2>1, <2>2 DEF CaptureNext, t
  <1> QED
    BY <1>3, <1>4

(* A hook that starts the CLI once, with the id.                           *)
Quiet(s) == ~Start!Starts(s) /\ ~Start!MayExit(s)
LEMMA TailGives ==
    ASSUME NEW s \in Seq(PaneStep), s # <<>>, NEW id, Start!Gives(s, id)
    PROVE  \/ /\ s[1].type = "shell" /\ Start!Starts(s[1]) /\ s[1].line.id = id
              /\ \A i \in DOMAIN Tail(s) : Quiet(Tail(s)[i])
           \/ Quiet(s[1]) /\ Start!Gives(Tail(s), id)
  <1> DEFINE t == Tail(s)
  <1>1. /\ Len(s) \in Nat /\ 1 \in DOMAIN s /\ DOMAIN s = 1 .. Len(s) /\ DOMAIN t = 1 .. Len(s) - 1
        /\ \A i \in DOMAIN t : i + 1 \in DOMAIN s /\ t[i] = s[i + 1]
        /\ \A i \in DOMAIN s : i = 1 \/ (i - 1 \in DOMAIN t /\ t[i - 1] = s[i])
    BY TailSteps
  <1> HIDE DEF t
  <1>2. PICK i \in DOMAIN s :
          /\ s[i].type = "shell" /\ Start!Starts(s[i]) /\ s[i].line.id = id
          /\ \A j \in DOMAIN s \ {i} : Quiet(s[j])
    BY DEF Start!Gives, Start!Shells, Quiet
  <1>3. CASE i # 1
    <2>1. i \in Nat /\ i - 1 \in DOMAIN t /\ t[i - 1] = s[i] /\ Quiet(s[1])
      BY <1>1, <1>2, <1>3
    <2>2. ASSUME NEW j \in DOMAIN t \ {i - 1} PROVE Quiet(t[j])
      <3>1. j + 1 \in DOMAIN s /\ t[j] = s[j + 1] /\ j + 1 # i
        BY <1>1, <2>1
      <3> QED
        BY <1>2, <3>1
    <2>3. i - 1 \in Start!Shells(t) /\ Start!Starts(t[i - 1]) /\ t[i - 1].line.id = id
      BY <1>2, <2>1 DEF Start!Shells
    <2> QED
      BY <2>1, <2>2, <2>3 DEF Start!Gives, Quiet, t
  <1>4. CASE i = 1
    <2>1. ASSUME NEW j \in DOMAIN t PROVE Quiet(t[j])
      <3>1. j + 1 \in DOMAIN s /\ t[j] = s[j + 1] /\ j + 1 # i
        BY <1>1, <1>4
      <3> QED
        BY <1>2, <3>1
    <2> QED
      BY <1>2, <1>4, <2>1 DEF t
  <1> QED
    BY <1>3, <1>4

(* What the step that is typed does.                                       *)
Submits(s, l) == /\ \/ s.type = "shell" /\ l = s.line
                    \/ s = Start!Key("Enter") /\ launchPane.typed # None /\ l = launchPane.typed
                    \/ s = Start!Key("C-c") /\ l = Start!Line("exit", None, None)
                 /\ Effect(l) /\ UNCHANGED <<captured, sid>>
Pastes(s) == /\ s.type = "paste" /\ launchPane' = [launchPane EXCEPT !.typed = s.line]
             /\ UNCHANGED <<launchScreen, talks, issued, captured, sid>>
Presses(s) == /\ s.type = "keystroke" /\ s # Start!Key("C-c")
              /\ s = Start!Key("Enter") => launchPane.typed = None
              /\ UNCHANGED <<launchPane, launchScreen, talks, issued, captured, sid>>
Stores(s) == /\ s = Start!Capture
             /\ IF launchScreen = None THEN UNCHANGED <<captured, sid>>
                ELSE captured' = launchScreen /\ sid' = launchScreen
             /\ UNCHANGED <<launchPane, launchScreen, talks, issued>>

(* A step is submitted, pasted, pressed or captures.                       *)
LEMMA DispatchDoes ==
    ASSUME LaunchType, Start!DispatchStep
    PROVE  /\ op.running /\ launchTodo # <<>> /\ launchTodo[1] \in PaneStep
           /\ launchTodo' = Tail(launchTodo)
           /\ UNCHANGED <<config, persona, creds, state, profile, op, record, last>>
           /\ \/ \E l \in PaneLine : Submits(launchTodo[1], l)
              \/ Pastes(launchTodo[1])
              \/ Presses(launchTodo[1])
              \/ Stores(launchTodo[1])
  <1> DEFINE s == launchTodo[1]
  <1>1. /\ op.running /\ launchTodo # <<>> /\ launchTodo' = Tail(launchTodo)
        /\ UNCHANGED <<config, persona, creds, state, profile, op, record, last>>
    BY DEF Start!DispatchStep
  <1>2. launchTodo \in Seq(PaneStep) /\ launchPane.typed \in PaneLine \cup {None}
    BY DEF LaunchType, PaneRecord
  <1>3. s \in PaneStep /\ Head(launchTodo) = s
    BY <1>1, <1>2, TailSteps
  <1> HIDE DEF s
  <1>4. \/ s.type = "shell" /\ Start!Submit(s.line) /\ UNCHANGED <<captured, sid>>
        \/ /\ s.type = "paste" /\ launchPane' = [launchPane EXCEPT !.typed = s.line]
           /\ UNCHANGED <<launchScreen, talks, issued, captured, sid>>
        \/ s.type = "keystroke" /\ Start!Press(s.key) /\ UNCHANGED <<captured, sid>>
        \/ s.type = "capture" /\ Start!Store
           /\ UNCHANGED <<launchPane, launchScreen, talks, issued>>
    BY <1>3 DEF Start!DispatchStep
  <1>5. CASE s.type = "shell" /\ Start!Submit(s.line) /\ UNCHANGED <<captured, sid>>
    <2>1. s.line \in PaneLine
      BY <1>3, <1>5, KindsOfSteps
    <2>2. Effect(s.line)
      BY <1>5, <2>1, SubmitDoes
    <2> QED
      BY <1>1, <1>3, <1>5, <2>1, <2>2 DEF Submits, s
  <1>6. CASE /\ s.type = "paste" /\ launchPane' = [launchPane EXCEPT !.typed = s.line]
             /\ UNCHANGED <<launchScreen, talks, issued, captured, sid>>
    BY <1>1, <1>3, <1>6 DEF Pastes, s
  <1>7. CASE s.type = "keystroke" /\ Start!Press(s.key) /\ UNCHANGED <<captured, sid>>
    <2>1. s = Start!Key(s.key) /\ \A k : Start!Key(k).key = k
      BY <1>3, <1>7, KindsOfSteps DEF Start!Key
    <2>2. CASE s.key = "Enter" /\ launchPane.typed # None
      <3>1. Start!Submit(launchPane.typed) /\ launchPane.typed \in PaneLine
        BY <1>2, <1>7, <2>2 DEF Start!Press
      <3>2. Submits(s, launchPane.typed)
        BY <1>7, <2>1, <2>2, <3>1, SubmitDoes DEF Submits
      <3> QED
        BY <1>1, <1>3, <3>1, <3>2 DEF s
    <2>3. CASE s.key = "C-c"
      <3>1. Start!Submit(Start!Line("exit", None, None))
        BY <1>7, <2>3 DEF Start!Press
      <3>2. Submits(s, Start!Line("exit", None, None))
        BY <1>7, <2>1, <2>3, <3>1, SubmitDoes, ExitLine DEF Submits
      <3> QED
        BY <1>1, <1>3, <3>2, ExitLine DEF s
    <2>4. CASE s.key # "C-c" /\ ~(s.key = "Enter" /\ launchPane.typed # None)
      <3>1. UNCHANGED <<launchPane, launchScreen, talks, issued>>
        BY <1>7, <2>4 DEF Start!Press
      <3>2. Presses(s)
        BY <1>7, <2>1, <2>4, <3>1 DEF Presses
      <3> QED
        BY <1>1, <1>3, <3>2 DEF s
    <2> QED
      BY <2>2, <2>3, <2>4
  <1>8. CASE s.type = "capture" /\ Start!Store
             /\ UNCHANGED <<launchPane, launchScreen, talks, issued>>
    <2>1. s = Start!Capture
      BY <1>3, <1>8, KindsOfSteps
    <2>2. Stores(s)
      BY <1>8, <2>1 DEF Stores, Start!Store
    <2> QED
      BY <1>1, <1>3, <2>2 DEF s
  <1> QED
    BY <1>4, <1>5, <1>6, <1>7, <1>8

(* A step keeps the types.                                                 *)
LEMMA DispatchType ==
    ASSUME LaunchType, Start!DispatchStep
    PROVE  LaunchType'
  <1> DEFINE s == launchTodo[1]
  <1>1. /\ s \in PaneStep /\ launchTodo' = Tail(launchTodo)
        /\ UNCHANGED <<config, persona, creds, state, profile, op, record, last>>
        /\ (\E l \in PaneLine : Submits(s, l)) \/ Pastes(s) \/ Presses(s) \/ Stores(s)
    BY DispatchDoes
  <1>2. PaneLine' = PaneLine /\ PaneStep' = PaneStep /\ PaneRecord' = PaneRecord
    BY <1>1 DEF PaneLine, PaneStep, PaneRecord
  <1>3. launchTodo' \in Seq(PaneStep)
    BY <1>1, TailSteps, DispatchDoes DEF LaunchType
  <1>4. /\ launchPane' \in PaneRecord /\ launchScreen' \in IdOrNone /\ issued' \in Nat
        /\ talks' \subseteq Talk /\ captured' \in IdOrNone /\ sid' \in IdOrNone
    <2>1. CASE \E l \in PaneLine : Submits(s, l)
      BY <2>1 DEF Submits, Effect, LaunchType
    <2>2. CASE Pastes(s)
      <3>1. s.line \in PaneLine
        BY <1>1, <2>2, KindsOfSteps DEF Pastes
      <3>2. launchPane' \in PaneRecord
        BY <2>2, <3>1 DEF Pastes, PaneRecord, LaunchType
      <3> QED
        BY <2>2, <3>2 DEF Pastes, LaunchType
    <2>3. CASE Presses(s)
      BY <2>3 DEF Presses, LaunchType
    <2>4. CASE Stores(s)
      BY <2>4 DEF Stores, LaunchType
    <2> QED
      BY <1>1, <2>1, <2>2, <2>3, <2>4
  <1> QED
    BY <1>1, <1>2, <1>3, <1>4 DEF LaunchType

(* A CLI is started by a launch only, and a step that ends one does so.    *)
LEMMA DispatchRuns ==
    ASSUME LaunchType, TodoShape, Start!DispatchStep
    PROVE  LET s == launchTodo[1]
           IN /\ \A l \in PaneLine : Submits(s, l) /\ Began(l) =>
                    /\ Launching
                    /\ (s.type = "shell" /\ Start!Starts(s) /\ l = s.line) \/ TypedStart
              /\ Start!Exits(s) /\ Start!Running => Ended
              /\ (\A l \in PaneLine : ~(Submits(s, l) /\ Began(l))) =>
                    \/ Ended /\ ~Start!Running'
                    \/ /\ launchPane'.runs = launchPane.runs
                       /\ launchPane'.prompt = launchPane.prompt
                       /\ launchPane.export => launchPane'.export
                       /\ launchPane'.home = launchPane.home \/ config.account
              /\ launchPane.export => launchPane'.export
              /\ ~config.account => launchPane'.home = launchPane.home
              /\ talks \subseteq talks'
  <1> DEFINE s == launchTodo[1]
  <1>1. /\ s \in PaneStep /\ launchTodo # <<>> /\ launchTodo \in Seq(PaneStep)
        /\ (\E l \in PaneLine : Submits(s, l)) \/ Pastes(s) \/ Presses(s) \/ Stores(s)
    BY DispatchDoes DEF LaunchType
  <1>2. /\ s.type \in {"shell", "paste", "keystroke", "capture"}
        /\ s.type = "shell" => \A k : s # Start!Key(k)
        /\ Start!Capture.type = "capture" /\ \A k : Start!Key(k).type = "keystroke"
    BY <1>1, KindsOfSteps DEF Start!Capture, Start!Key
  <1>3. NoStarts(launchTodo) => ~Start!Starts(s)
    BY <1>1, TailHooks
  <1>4. launchPane \in PaneRecord
    BY DEF LaunchType
  <1> HIDE DEF s
  <1>5. ASSUME NEW l \in PaneLine, Submits(s, l), Began(l)
        PROVE  Launching /\ ((s.type = "shell" /\ Start!Starts(s) /\ l = s.line) \/ TypedStart)
    <2>1. l.do \in {"start", "resume"}
      BY <1>5 DEF Began
    <2>2. CASE s.type = "shell" /\ l = s.line
      BY <1>3, <2>1, <2>2 DEF Start!Starts, TodoShape
    <2>3. CASE launchPane.typed # None /\ l = launchPane.typed
      BY <2>1, <2>3 DEF TypedStart, TodoShape
    <2>4. CASE l = Start!Line("exit", None, None)
      BY <2>1, <2>4, ExitLine
    <2> QED
      BY <1>5, <2>2, <2>3, <2>4 DEF Submits
  <1>6. ASSUME Start!Exits(s), Start!Running PROVE Ended
    <2>1. (s.type = "shell" /\ s.line.do = "exit") \/ s = Start!Key("C-c")
      BY <1>6 DEF Start!Exits
    <2>2. PICK l \in PaneLine : Submits(s, l)
      BY <1>1, <1>2, <2>1 DEF Pastes, Presses, Stores
    <2>3. l.do = "exit"
      <3>1. Start!Key("Enter") # Start!Key("C-c")
        BY DEF Start!Key
      <3> QED
        BY <1>2, <2>1, <2>2, <3>1, ExitLine DEF Submits
    <2> QED
      BY <1>6, <2>2, <2>3 DEF Submits, Effect, Began
  <1>7. ASSUME \A l \in PaneLine : ~(Submits(s, l) /\ Began(l))
        PROVE  \/ Ended /\ ~Start!Running'
               \/ /\ launchPane'.runs = launchPane.runs
                  /\ launchPane'.prompt = launchPane.prompt
                  /\ launchPane.export => launchPane'.export
                  /\ launchPane'.home = launchPane.home \/ config.account
    <2>1. CASE \E l \in PaneLine : Submits(s, l)
      BY <1>7, <2>1 DEF Submits, Effect, Ended, Told, Ignored, Start!Running
    <2>2. CASE Pastes(s)
      BY <1>4, <2>2 DEF Pastes, PaneRecord
    <2>3. CASE Presses(s) \/ Stores(s)
      BY <2>3 DEF Presses, Stores
    <2> QED
      BY <1>1, <2>1, <2>2, <2>3
  <1>8. /\ launchPane.export => launchPane'.export
        /\ ~config.account => launchPane'.home = launchPane.home
        /\ talks \subseteq talks'
    <2>1. CASE \E l \in PaneLine : Submits(s, l)
      BY <2>1 DEF Submits, Effect
    <2>2. CASE Pastes(s)
      BY <1>4, <2>2 DEF Pastes, PaneRecord
    <2>3. CASE Presses(s) \/ Stores(s)
      BY <2>3 DEF Presses, Stores
    <2> QED
      BY <1>1, <2>1, <2>2, <2>3
  <1> QED
    BY <1>5, <1>6, <1>7, <1>8 DEF s

(* What is typed after the step.                                           *)
LEMMA DispatchTypes ==
    ASSUME LaunchType, Start!DispatchStep
    PROVE  LET s == launchTodo[1]
           IN \/ launchPane'.typed = None
              \/ s.type = "paste" /\ launchPane'.typed = s.line
              \/ /\ launchPane'.typed = launchPane.typed
                 /\ s = Start!Key("Enter") => launchPane.typed = None
  <1> DEFINE s == launchTodo[1]
  <1>1. \/ (\E l \in PaneLine : Submits(s, l)) \/ Pastes(s) \/ Presses(s) \/ Stores(s)
    BY DispatchDoes
  <1>2. launchPane \in PaneRecord /\ Start!Capture # Start!Key("Enter")
    BY DEF LaunchType, Start!Capture, Start!Key
  <1>3. CASE \E l \in PaneLine : Submits(s, l)
    BY <1>3 DEF Submits, Effect
  <1>4. CASE Pastes(s)
    BY <1>2, <1>4 DEF Pastes, PaneRecord
  <1>5. CASE Presses(s) \/ Stores(s)
    BY <1>2, <1>5 DEF Presses, Stores
  <1> QED
    BY <1>1, <1>3, <1>4, <1>5

(* What is left to type keeps its shape.                                   *)
LEMMA DispatchShape ==
    ASSUME LaunchType, TodoShape, Start!DispatchStep
    PROVE  TodoShape'
  <1> DEFINE s == launchTodo[1]
  <1>1. /\ op.running /\ launchTodo # <<>> /\ s \in PaneStep /\ launchTodo' = Tail(launchTodo)
        /\ UNCHANGED <<config, state, op>> /\ launchTodo \in Seq(PaneStep)
    BY DispatchDoes DEF LaunchType
  <1>2. /\ Start!Entered(launchTodo)' /\ (~Launching => NoStarts(launchTodo)' /\ ~Start!Starts(s))
        /\ Start!Starts(s) /\ s.type = "paste" =>
                      launchTodo' # <<>> /\ launchTodo'[1] = Start!Key("Enter")
        /\ (\E i \in DOMAIN launchTodo : Start!Exits(launchTodo[i])) =>
                Start!Exits(s) \/ \E i \in DOMAIN launchTodo' : Start!Exits(launchTodo'[i])
    <2>1. NoStarts(launchTodo)' = NoStarts(launchTodo')
          /\ Start!Entered(launchTodo)' = Start!Entered(launchTodo')
      BY DEF NoStarts, Start!Entered, Start!Starts, Start!Key
    <2> QED
      BY <1>1, <2>1, TailHooks DEF TodoShape
  <1>3. Launching' = Launching /\ Leaving' = Leaving
    BY <1>1 DEF Launching, Leaving
  <1>4. /\ \A l \in PaneLine : Submits(s, l) /\ Began(l) => Launching
        /\ Start!Exits(s) /\ Start!Running => Ended
        /\ (\A l \in PaneLine : ~(Submits(s, l) /\ Began(l))) =>
              \/ Ended /\ ~Start!Running'
              \/ launchPane'.runs = launchPane.runs /\ launchPane'.prompt = launchPane.prompt
    BY DispatchRuns
  <1> HIDE DEF s
  <1>5. TypedStart' => Launching /\ launchTodo' # <<>> /\ launchTodo'[1] = Start!Key("Enter")
    <2> SUFFICES ASSUME TypedStart'
                 PROVE  Launching /\ launchTodo' # <<>> /\ launchTodo'[1] = Start!Key("Enter")
      OBVIOUS
    <2>1. CASE s.type = "paste" /\ launchPane'.typed = s.line
      <3>1. Start!Starts(s)
        BY <2>1 DEF TypedStart, Start!Starts
      <3> QED
        BY <1>2, <2>1, <3>1
    <2>2. CASE /\ launchPane'.typed = launchPane.typed
               /\ s = Start!Key("Enter") => launchPane.typed = None
      <3>1. TypedStart
        BY <2>2 DEF TypedStart
      <3> QED
        BY <2>2, <3>1 DEF TodoShape, TypedStart, s
    <2>3. launchPane'.typed # None
      BY DEF TypedStart
    <2> QED
      BY <2>1, <2>2, <2>3, DispatchTypes DEF s
  <1>6. CASE \E l \in PaneLine : Submits(s, l) /\ Began(l)
    <2>1. Launching /\ Start!Running'
      <3>1. PICK l \in PaneLine : Submits(s, l) /\ Began(l)
        BY <1>6
      <3> QED
        BY <1>4, <3>1, LaunchConstants DEF Began, Start!Running
    <2>2. ~Leaving
      BY <2>1 DEF Launching, Leaving, Start!Launches
    <2> QED
      BY <1>1, <1>2, <1>3, <1>5, <2>1, <2>2 DEF TodoShape
  <1>7. CASE \A l \in PaneLine : ~(Submits(s, l) /\ Began(l))
    <2>1. CASE Ended /\ ~Start!Running'
      BY <1>1, <1>2, <1>3, <1>5, <2>1 DEF TodoShape, Ended
    <2>2. CASE ~Ended /\ launchPane'.runs = launchPane.runs /\ launchPane'.prompt = launchPane.prompt
      <3>1. Start!Running' = Start!Running
        BY <2>2 DEF Start!Running
      <3>2. Leaving /\ Start!Running => \E i \in DOMAIN launchTodo' : Start!Exits(launchTodo'[i])
        BY <1>2, <1>4, <2>2 DEF TodoShape
      <3>3. Leaving' /\ Start!Running' => (\E i \in DOMAIN launchTodo : Start!Exits(launchTodo[i]))'
        <4>1. \A x : Start!Exits(x)' = Start!Exits(x)
          BY DEF Start!Exits, Start!Key
        <4> QED
          BY <1>3, <3>1, <3>2 DEF Start!Exits, Start!Key
      <3> QED
        BY <1>1, <1>2, <1>3, <1>5, <2>2, <3>1, <3>3 DEF TodoShape
    <2> QED
      BY <1>4, <1>7, <2>1, <2>2 DEF Ended, Start!Running
  <1> QED
    BY <1>6, <1>7

(* The name, the persona and the conversations after the step.             *)
LEMMA DispatchNames ==
    ASSUME LaunchType, TodoShape, Exported, Prompted, Found, Start!DispatchStep
    PROVE  Exported' /\ Prompted' /\ Found'
  <1> DEFINE s == launchTodo[1]
  <1>1. /\ op.running /\ launchTodo # <<>> /\ s \in PaneStep /\ launchTodo' = Tail(launchTodo)
        /\ UNCHANGED <<config, op, profile, last, state>> /\ launchTodo \in Seq(PaneStep)
        /\ None \notin Int /\ config \in Config
        /\ (\E l \in PaneLine : Submits(s, l)) \/ Pastes(s) \/ Presses(s) \/ Stores(s)
    BY DispatchDoes, LaunchConstants DEF LaunchType
  <1>2. /\ \A l \in PaneLine : Submits(s, l) /\ Began(l) =>
               Launching /\ ((s.type = "shell" /\ Start!Starts(s) /\ l = s.line) \/ TypedStart)
        /\ (\A l \in PaneLine : ~(Submits(s, l) /\ Began(l))) =>
              \/ Ended /\ ~Start!Running'
              \/ launchPane'.runs = launchPane.runs /\ launchPane'.prompt = launchPane.prompt
        /\ launchPane.export => launchPane'.export
        /\ ~config.account => launchPane'.home = launchPane.home
        /\ talks \subseteq talks'
    BY DispatchRuns
  <1>3. Launching' = Launching /\ Unkeyed' = Unkeyed
        /\ Start!Launches' = Start!Launches
    BY <1>1 DEF Launching, Unkeyed, Start!Keyed, Start!Shells, Start!Key
  <1>4. s.type = "shell" => /\ \E l \in PaneLine : Submits(s, l)
                            /\ \A l \in PaneLine : Submits(s, l) => l = s.line
    <2>1. s.type = "shell" => /\ s # Start!Capture /\ \A k : s # Start!Key(k)
      BY <1>1, KindsOfSteps
    <2> QED
      BY <1>1, <2>1 DEF Submits, Pastes, Presses, Stores
  <1>5. TypedStart => s = Start!Key("Enter") /\ s.type # "shell"
    BY <1>1, KindsOfSteps DEF TodoShape
  <1> HIDE DEF s
  <1>6. Exported'
    <2> SUFFICES ASSUME Unkeyed
                 PROVE  /\ Start!Running' => launchPane'.export
                        /\ Launching /\ ~launchPane'.export => ExportFirst(launchTodo)'
      BY <1>3 DEF Exported
    <2> USE <1>3
    <2>1. /\ Start!Running => launchPane.export
          /\ Launching /\ ~launchPane.export => ExportFirst(launchTodo)
      BY DEF Exported
    <2>2. CASE launchPane.export
      BY <1>2, <2>2
    <2>3. CASE ~launchPane.export /\ ~Launching
      <3>1. ~Start!Running /\ \A l \in PaneLine : ~(Submits(s, l) /\ Began(l))
        BY <1>2, <2>1, <2>3
      <3> QED
        BY <1>2, <2>3, <3>1 DEF Start!Running
    <2>4. CASE ~launchPane.export /\ Launching
      <3>1. ExportFirst(launchTodo) /\ ~Start!Running
        BY <2>1, <2>4
      <3>2. \/ s.type = "shell" /\ s.line.export
            \/ s.type # "shell" /\ s # Start!Key("Enter") /\ ExportFirst(launchTodo')
        BY <1>1, <3>1, TailExports DEF s
      <3>3. CASE s.type = "shell" /\ s.line.export
        BY <1>4, <3>1, <3>3 DEF Submits, Effect
      <3>4. CASE s.type # "shell" /\ s # Start!Key("Enter") /\ ExportFirst(launchTodo')
        <4>1. \A l \in PaneLine : ~(Submits(s, l) /\ Began(l))
          BY <1>2, <1>5, <3>4
        <4>2. ~Start!Running'
          BY <1>2, <3>1, <4>1 DEF Start!Running
        <4>3. ExportFirst(launchTodo)' = ExportFirst(launchTodo')
          BY DEF ExportFirst, Start!Key
        <4> QED
          BY <3>4, <4>2, <4>3
      <3> QED
        BY <3>2, <3>3, <3>4
    <2> QED
      BY <2>2, <2>3, <2>4
  <1>7. CASE \A l \in PaneLine : ~(Submits(s, l) /\ Began(l))
    <2>1. Ended \/ launchPane'.prompt = launchPane.prompt
      BY <1>2, <1>7
    <2>2. Prompted'
      BY <1>1, <1>3, <2>1 DEF Prompted, Ended, Start!UsesProfile
    <2>3. Found'
      BY <1>1, <1>2, <1>7 DEF Found, InReal, Start!Running
    <2> QED
      BY <1>6, <2>2, <2>3
  <1>8. CASE \E l \in PaneLine : Submits(s, l) /\ Began(l)
    <2>1. PICK l \in PaneLine : Submits(s, l) /\ Began(l)
      BY <1>8
    <2>2. /\ launchPane'.prompt \in {None, op.persona}
                \/ (launchPane'.prompt = profile /\ Start!UsesProfile(config.engine))
          /\ config.linked \/ (~config.account /\ launchPane.home = "real")
                => InReal(launchPane'.runs) \in talks'
          /\ op.kind \in Start!Launches /\ op.persona \in Nat
      BY <1>2, <2>1 DEF Began, Launching, LaunchType
    <2>3. Prompted'
      BY <1>1, <1>3, <2>2 DEF Prompted, Start!UsesProfile
    <2>4. Found'
      BY <1>1, <1>2, <2>2 DEF Found, InReal
    <2> QED
      BY <1>6, <2>3, <2>4
  <1> QED
    BY <1>7, <1>8

(* What can be read in the pane is of the conversation that runs or was    *)
(* left.                                                                   *)
LEMMA DispatchScreen ==
    ASSUME LaunchType, TodoShape, OnScreen, Start!DispatchStep
    PROVE  OnScreen'
  <1> DEFINE s == launchTodo[1]
  <1>1. /\ op.running /\ UNCHANGED <<config, op, last, state>>
        /\ (\E l \in PaneLine : Submits(s, l)) \/ Pastes(s) \/ Presses(s) \/ Stores(s)
    BY DispatchDoes
  <1>2. /\ \A l \in PaneLine : Submits(s, l) /\ Began(l) => Launching
        /\ Left' = Left /\ Leaving' = Leaving
    BY <1>1, DispatchRuns DEF Left, Leaving, Launching, Start!Launches
  <1> HIDE DEF s
  <1>3. launchPane \in PaneRecord
    BY DEF LaunchType
  <1>4. CASE Pastes(s) \/ Presses(s) \/ Stores(s)
    <2>1. launchPane'.runs = launchPane.runs /\ launchScreen' = launchScreen
      BY <1>3, <1>4 DEF Pastes, Presses, Stores, PaneRecord
    <2> QED
      BY <1>1, <1>2, <2>1 DEF OnScreen, Start!Running
  <1>5. CASE \E l \in PaneLine : Submits(s, l)
    <2>1. PICK l \in PaneLine : Submits(s, l)
      BY <1>5
    <2>2. CASE Began(l)
      <3>1. launchScreen' = None /\ ~Start!Running /\ Launching
        BY <1>2, <2>1, <2>2 DEF Began
      <3>2. ~Left
        BY <3>1 DEF Left, Launching, Leaving, Start!Launches
      <3> QED
        BY <1>1, <1>2, <3>1, <3>2 DEF OnScreen
    <2>3. CASE Ended
      BY <1>1, <1>2, <2>3 DEF OnScreen, Ended, Start!Running
    <2>4. CASE Told \/ Ignored
      BY <1>1, <1>2, <2>4 DEF OnScreen, Told, Ignored, Start!Running
    <2> QED
      BY <2>1, <2>2, <2>3, <2>4 DEF Submits, Effect
  <1> QED
    BY <1>1, <1>4, <1>5

(* Steps that ask, that capture, and that let run what runs.               *)
LEMMA DispatchAsks ==
    ASSUME LaunchType, TodoShape, Start!DispatchStep
    PROVE  LET s == launchTodo[1]
           IN /\ s.type = "shell" => \E l \in PaneLine : Submits(s, l) /\ l = s.line
              /\ s.type = "shell" /\ s.line.do = "status" =>
                    /\ Start!Running => Told
                    /\ ~Start!Running => ~Start!Running'
              /\ s = Start!Capture => Stores(s)
              /\ Start!Running /\ ~Start!Exits(s)
                   /\ (s = Start!Key("Enter") /\ launchPane.typed # None => launchPane.typed.do # "exit")
                 => launchPane'.runs = launchPane.runs
  <1> DEFINE s == launchTodo[1]
  <1>1. /\ s \in PaneStep /\ launchPane \in PaneRecord
        /\ (\E l \in PaneLine : Submits(s, l)) \/ Pastes(s) \/ Presses(s) \/ Stores(s)
    BY DispatchDoes DEF LaunchType
  <1>2. /\ s.type = "shell" => s # Start!Capture /\ \A k : s # Start!Key(k)
        /\ s = Start!Capture => s.type = "capture" /\ \A k : s # Start!Key(k)
    BY <1>1, KindsOfSteps DEF Start!Capture
  <1>3. \A l \in PaneLine : Submits(s, l) /\ Began(l) => l.do \in {"start", "resume"}
    BY DEF Began
  <1> HIDE DEF s
  <1>4. s.type = "shell" => \E l \in PaneLine : Submits(s, l) /\ l = s.line
    BY <1>1, <1>2 DEF Submits, Pastes, Presses, Stores
  <1>5. ASSUME s.type = "shell", s.line.do = "status"
        PROVE  (Start!Running => Told) /\ (~Start!Running => ~Start!Running')
    <2>1. Effect(s.line) /\ ~Began(s.line)
      BY <1>4, <1>5 DEF Submits, Began
    <2> QED
      BY <1>5, <2>1 DEF Effect, Told, Ignored, Start!Running
  <1>6. s = Start!Capture => Stores(s)
    BY <1>1, <1>2 DEF Submits, Pastes, Presses
  <1>7. ASSUME Start!Running, ~Start!Exits(s),
               s = Start!Key("Enter") /\ launchPane.typed # None => launchPane.typed.do # "exit"
        PROVE  launchPane'.runs = launchPane.runs
    <2>1. CASE Pastes(s) \/ Presses(s) \/ Stores(s)
      BY <1>1, <2>1 DEF Pastes, Presses, Stores, PaneRecord
    <2>2. CASE \E l \in PaneLine : Submits(s, l)
      <3>1. PICK l \in PaneLine : Submits(s, l)
        BY <2>2
      <3>2. l.do # "exit"
        BY <1>2, <1>7, <3>1 DEF Submits, Start!Exits
      <3>3. Effect(l) /\ ~Began(l)
        BY <1>7, <3>1 DEF Submits, Began
      <3> QED
        BY <3>2, <3>3 DEF Effect, Told, Ignored
    <2> QED
      BY <1>1, <2>1, <2>2
  <1> QED
    BY <1>4, <1>5, <1>6, <1>7 DEF s

(* What a capture may store.                                               *)
LEMMA DispatchStores ==
    ASSUME LaunchType, Start!DispatchStep
    PROVE  \/ UNCHANGED <<captured, sid>>
           \/ /\ launchTodo[1] = Start!Capture /\ launchScreen # None
              /\ captured' = launchScreen /\ sid' = launchScreen
              /\ UNCHANGED launchPane
  BY DispatchDoes DEF Submits, Pastes, Presses, Stores

(* The id on the row, and the captured one.                                *)
LEMMA DispatchRow ==
    ASSUME LaunchType, TodoShape, OnScreen, RowNames, NothingCaptured, Start!DispatchStep
    PROVE  RowNames' /\ NothingCaptured'
  <1> DEFINE s == launchTodo[1]
  <1>1. /\ op.running /\ launchTodo # <<>> /\ s \in PaneStep /\ launchTodo' = Tail(launchTodo)
        /\ UNCHANGED <<config, op, record, last, state>> /\ launchTodo \in Seq(PaneStep)
        /\ record \in IdOrNone
    BY DispatchDoes DEF LaunchType
  <1>2. /\ \A l \in PaneLine : Submits(s, l) /\ Began(l) =>
               Launching /\ ((s.type = "shell" /\ Start!Starts(s) /\ l = s.line) \/ TypedStart)
        /\ (\A l \in PaneLine : ~(Submits(s, l) /\ Began(l))) =>
              (Ended /\ ~Start!Running') \/ launchPane'.runs = launchPane.runs
    BY DispatchRuns
  <1>3. Left' = Left /\ Launching' = Launching /\ PassesIds' = PassesIds
    BY <1>1 DEF Left, Leaving, Launching, Start!Launches, PassesIds, Start!GivesId,
                Start!Gives, Start!Shells, Start!Starts, Start!MayExit, Start!Exits, Start!Key,
                Start!Placeholder
  <1>4. NothingCaptured'
    <2>1. NoCapture(launchTodo)' = NoCapture(launchTodo')
      BY DEF NoCapture
    <2>2. NoCapture(launchTodo) => NoCapture(launchTodo') /\ s.type # "capture"
      BY <1>1, TailHooks
    <2>3. NoCapture(launchTodo) => captured' = captured
      BY <2>2, DispatchStores DEF Start!Capture
    <2> QED
      BY <1>1, <2>1, <2>2, <2>3 DEF NothingCaptured, Start!Captures
  <1>5. ASSUME PassesIds, Launching
        PROVE  /\ record # None /\ ~TypedStart'
               /\ \A i \in DOMAIN launchTodo' :
                    Start!Starts(launchTodo'[i]) =>
                        launchTodo'[i].type = "shell" /\ launchTodo'[i].line.id = record
               /\ Start!Running' => launchPane'.runs = record
    <2>1. /\ record # None /\ ~TypedStart
          /\ \A i \in DOMAIN launchTodo :
                  Start!Starts(launchTodo[i]) =>
                      launchTodo[i].type = "shell" /\ launchTodo[i].line.id = record
          /\ Start!Running => launchPane.runs = record
      BY <1>5 DEF RowNames
    <2>2. Start!Starts(s) => s.type = "shell" /\ s.line.id = record
      BY <1>1, <2>1, TailSteps
    <2>3. ~TypedStart'
      <3>1. \/ launchPane'.typed = None
            \/ s.type = "paste" /\ launchPane'.typed = s.line
            \/ launchPane'.typed = launchPane.typed
        BY DispatchTypes
      <3> HIDE DEF s
      <3> QED
        BY <2>1, <2>2, <3>1 DEF TypedStart, Start!Starts
    <2>4. \A i \in DOMAIN launchTodo' :
                    Start!Starts(launchTodo'[i]) =>
                        launchTodo'[i].type = "shell" /\ launchTodo'[i].line.id = record
      BY <1>1, <2>1, TailSteps
    <2>5. Start!Running' => launchPane'.runs = record
      <3>1. CASE \E l \in PaneLine : Submits(s, l) /\ Began(l)
        <4>1. PICK l \in PaneLine : Submits(s, l) /\ Began(l)
          BY <3>1
        <4>2. l = s.line /\ l.id = record /\ record \in Nat \ {0}
          BY <1>1, <1>2, <2>1, <2>2, <4>1 DEF IdOrNone
        <4> QED
          BY <4>1, <4>2 DEF Began
      <3>2. CASE \A l \in PaneLine : ~(Submits(s, l) /\ Began(l))
        BY <1>2, <2>1, <3>2 DEF Start!Running
      <3> QED
        BY <3>1, <3>2
    <2> QED
      BY <2>1, <2>3, <2>4, <2>5
  <1>6. ASSUME PassesIds, state = "active", ~Launching, Start!Running'
        PROVE  sid' = launchPane'.runs
    <2>1. Start!Running /\ launchPane'.runs = launchPane.runs /\ sid = launchPane.runs
      BY <1>2, <1>6 DEF RowNames, Start!Running
    <2> QED
      BY <2>1, DispatchStores DEF OnScreen
  <1>7. ASSUME PassesIds, Left PROVE sid' = last
    BY <1>7, DispatchStores DEF RowNames, OnScreen
  <1>8. RowNames'
    <2>1. (\A i \in DOMAIN launchTodo :
                    Start!Starts(launchTodo[i]) =>
                        launchTodo[i].type = "shell" /\ launchTodo[i].line.id = record)'
          = \A i \in DOMAIN launchTodo' :
                    Start!Starts(launchTodo'[i]) =>
                        launchTodo'[i].type = "shell" /\ launchTodo'[i].line.id = record
      BY <1>1 DEF Start!Starts
    <2> QED
      BY <1>1, <1>3, <1>5, <1>6, <1>7, <2>1 DEF RowNames
  <1> QED
    BY <1>4, <1>8

(* The id is captured as the CLI is left.                                  *)
LEMMA DispatchLeft ==
    ASSUME LaunchType, TodoShape, OnScreen, LeftCaptured, Start!DispatchStep
    PROVE  LeftCaptured'
  <1> DEFINE s == launchTodo[1]
  <1>1. /\ launchTodo # <<>> /\ s \in PaneStep /\ launchTodo' = Tail(launchTodo)
        /\ UNCHANGED <<config, op, last, state>> /\ launchTodo \in Seq(PaneStep)
    BY DispatchDoes DEF LaunchType
  <1>2. /\ Left' = Left /\ Leaving' = Leaving /\ Start!ByLeaving' = Start!ByLeaving
        /\ Start!AsksLeaving(launchTodo)' = Start!AsksLeaving(launchTodo')
        /\ CaptureNext(launchTodo)' = CaptureNext(launchTodo')
    BY <1>1 DEF Left, Leaving, Launching, Start!Launches, Start!ByLeaving, Start!AsksLeaving,
                Start!Exits, Start!Key, Start!Capture, CaptureNext
  <1> SUFFICES ASSUME Start!ByLeaving, Left
               PROVE  \/ sid' = last /\ captured' = last
                      \/ Leaving /\ Start!Running' /\ Start!AsksLeaving(launchTodo')
                      \/ Leaving /\ launchScreen' = last /\ CaptureNext(launchTodo')
    BY <1>1, <1>2 DEF LeftCaptured
  <1>3. /\ launchScreen \in {None, last} /\ last # None
        /\ Start!Running => Leaving /\ launchPane.runs = last
    BY DEF OnScreen, Left
  <1>4. CASE sid = last /\ captured = last
    BY <1>3, <1>4, DispatchStores
  <1>5. CASE Leaving /\ Start!Running /\ Start!AsksLeaving(launchTodo)
    <2>1. \/ Tells(s) /\ CaptureNext(launchTodo')
          \/ /\ ~Start!Exits(s) /\ s # Start!Key("Enter")
             /\ Start!AsksLeaving(launchTodo')
      BY <1>1, <1>5, TailAsksLeaving
    <2>2. CASE Tells(s) /\ CaptureNext(launchTodo')
      <3>1. Told \/ (config.engine # "claude" /\ Ended)
        BY <1>5, <2>2, DispatchAsks, DispatchRuns DEF Tells
      <3> QED
        BY <1>3, <1>5, <2>2, <3>1 DEF Told, Ended
    <2>3. CASE ~Start!Exits(s) /\ s # Start!Key("Enter") /\ Start!AsksLeaving(launchTodo')
      <3>1. launchPane'.runs = launchPane.runs
        BY <1>5, <2>3, DispatchAsks
      <3> QED
        BY <1>5, <2>3, <3>1 DEF Start!Running
    <2> QED
      BY <2>1, <2>2, <2>3
  <1>6. CASE Leaving /\ launchScreen = last /\ CaptureNext(launchTodo)
    <2>1. Stores(s)
      BY <1>6, DispatchAsks DEF CaptureNext
    <2> QED
      BY <1>3, <1>6, <2>1 DEF Stores
  <1> QED
    BY <1>4, <1>5, <1>6 DEF LeftCaptured

(* The id is captured as the CLI is launched.                              *)
LEMMA DispatchCaptured ==
    ASSUME LaunchType, TodoShape, OnScreen, LaunchCaptured, Start!DispatchStep
    PROVE  LaunchCaptured'
  <1> DEFINE s == launchTodo[1]
  <1>1. /\ launchTodo # <<>> /\ s \in PaneStep /\ launchTodo' = Tail(launchTodo)
        /\ UNCHANGED <<config, op, last, state>> /\ launchTodo \in Seq(PaneStep)
    BY DispatchDoes DEF LaunchType
  <1>2. /\ Left' = Left /\ Launching' = Launching /\ AsksAtLaunch' = AsksAtLaunch
        /\ Start!Asks(launchTodo)' = Start!Asks(launchTodo')
        /\ NoStarts(launchTodo)' = NoStarts(launchTodo')
        /\ CaptureNext(launchTodo)' = CaptureNext(launchTodo')
    BY <1>1 DEF Left, Leaving, Launching, Start!Launches, AsksAtLaunch, Start!Asks, NoStarts,
                Start!Shells, Start!Starts, Start!Capture, CaptureNext
  <1>3. /\ \A l \in PaneLine : Submits(s, l) /\ Began(l) => Launching /\ (Start!Starts(s) \/ TypedStart)
        /\ (\A l \in PaneLine : ~(Submits(s, l) /\ Began(l))) =>
              (Ended /\ ~Start!Running') \/ launchPane'.runs = launchPane.runs
    BY DispatchRuns
  <1>4. NoStarts(launchTodo) => NoStarts(launchTodo') /\ ~Start!Starts(s)
    BY <1>1, TailHooks
  <1>5. /\ Start!Running /\ launchScreen # None => launchScreen = launchPane.runs
        /\ Left => launchScreen \in {None, last} /\ last # None
    BY DEF OnScreen, Left
  <1> SUFFICES ASSUME AsksAtLaunch
               PROVE  /\ Launching =>
                          \/ Start!Asks(launchTodo')
                          \/ /\ NoStarts(launchTodo') /\ CaptureNext(launchTodo')
                             /\ Start!Running' => launchScreen' = launchPane'.runs
                          \/ /\ NoStarts(launchTodo') /\ ~TypedStart'
                             /\ Start!Running' => captured' = launchPane'.runs
                      /\ ~Launching /\ Start!Running' => captured' = launchPane'.runs
                      /\ Left => captured' = last
    BY <1>1, <1>2 DEF LaunchCaptured
  <1>6. ASSUME \A l \in PaneLine : ~(Submits(s, l) /\ Began(l)),
               Start!Running => captured = launchPane.runs
        PROVE  Start!Running' => captured' = launchPane'.runs
    <2> SUFFICES ASSUME Start!Running' PROVE captured' = launchPane'.runs
      OBVIOUS
    <2>1. Start!Running /\ launchPane'.runs = launchPane.runs
      BY <1>3, <1>6 DEF Start!Running
    <2> QED
      BY <1>5, <1>6, <2>1, DispatchStores
  <1>7. ASSUME Launching, Start!Asks(launchTodo)
        PROVE  \/ Start!Asks(launchTodo')
               \/ /\ NoStarts(launchTodo') /\ CaptureNext(launchTodo')
                  /\ Start!Running' => launchScreen' = launchPane'.runs
    <2>1. CASE /\ s.type = "shell" /\ s.line.do = "status"
               /\ CaptureNext(launchTodo') /\ NoStarts(launchTodo')
      BY <2>1, DispatchAsks DEF Told
    <2> QED
      BY <1>1, <1>7, <2>1, TailAsks
  <1>8. ASSUME Launching, NoStarts(launchTodo), CaptureNext(launchTodo),
               Start!Running => launchScreen = launchPane.runs
        PROVE  /\ NoStarts(launchTodo') /\ ~TypedStart'
               /\ Start!Running' => captured' = launchPane'.runs
    <2>1. Stores(s) /\ s = Start!Capture
      BY <1>8, DispatchAsks DEF CaptureNext
    <2>2. ~TypedStart
      BY <2>1 DEF TodoShape, Start!Key, Start!Capture
    <2> QED
      BY <1>4, <1>8, <2>1, <2>2 DEF Stores, TypedStart, Start!Running
  <1>9. ASSUME Launching, NoStarts(launchTodo), ~TypedStart,
               Start!Running => captured = launchPane.runs
        PROVE  /\ NoStarts(launchTodo') /\ ~TypedStart'
               /\ Start!Running' => captured' = launchPane'.runs
    <2>1. ~TypedStart'
      <3>1. \/ launchPane'.typed = None
            \/ s.type = "paste" /\ launchPane'.typed = s.line
            \/ launchPane'.typed = launchPane.typed
        BY DispatchTypes
      <3> HIDE DEF s
      <3> QED
        BY <1>4, <1>9, <3>1 DEF TypedStart, Start!Starts
    <2> QED
      BY <1>3, <1>4, <1>6, <1>9, <2>1
  <1>10. ~Launching /\ Start!Running' => captured' = launchPane'.runs
    BY <1>3, <1>6 DEF LaunchCaptured
  <1>11. Left => captured' = last
    BY <1>5, DispatchStores DEF LaunchCaptured
  <1> QED
    BY <1>7, <1>8, <1>9, <1>10, <1>11 DEF LaunchCaptured

(* A launch that continues a conversation starts it, once.                 *)
LEMMA DispatchContinues ==
    ASSUME LaunchType, TodoShape, Found, Continuing, Start!DispatchStep
    PROVE  Continuing'
  <1> DEFINE s == launchTodo[1]
  <1>1. /\ launchTodo # <<>> /\ s \in PaneStep /\ launchTodo' = Tail(launchTodo) /\ op.running
        /\ UNCHANGED <<config, op, last>> /\ launchTodo \in Seq(PaneStep)
        /\ last \in IdOrNone /\ launchPane \in PaneRecord /\ config \in Config
    BY DispatchDoes DEF LaunchType
  <1>2. /\ Start!Known' = Start!Known /\ Start!Gives(launchTodo, last)' = Start!Gives(launchTodo', last)
        /\ \A x : Start!Starts(x)' = Start!Starts(x) /\ Start!MayExit(x)' = Start!MayExit(x)
    BY <1>1 DEF Start!Known, Start!ByName, Start!ByLeaving, Start!ByAsking, Start!GivesId,
                Start!Captures, Start!AsksLeaving, Start!Asks, Start!Gives,
                Start!Shells, Start!Starts, Start!MayExit, Start!Exits, Start!Key,
                Start!Capture, Start!Placeholder
  <1>3. /\ \A l \in PaneLine : Submits(s, l) /\ Began(l) => Start!Starts(s) \/ TypedStart
        /\ (\A l \in PaneLine : ~(Submits(s, l) /\ Began(l))) =>
              (Ended /\ ~Start!Running') \/ launchPane'.runs = launchPane.runs
    BY DispatchRuns
  <1>4. \/ launchPane'.typed = None
        \/ s.type = "paste" /\ launchPane'.typed = s.line
        \/ launchPane'.typed = launchPane.typed
    BY DispatchTypes
  <1> SUFFICES ASSUME op.kind \in {"resume", "relaunch"}, last # None, Start!Known
               PROVE  IF Start!Running'
                      THEN /\ launchPane'.runs = last
                           /\ launchPane'.typed # None => launchPane'.typed.do # "exit"
                           /\ \A i \in DOMAIN launchTodo' : Quiet(launchTodo'[i])
                      ELSE ~TypedStart' /\ Start!Gives(launchTodo', last)
    BY <1>1, <1>2 DEF Continuing, Quiet, Start!Starts, Start!MayExit, Start!Exits, Start!Key
  <1>5. CASE Start!Running
    <2>1. /\ launchPane.runs = last
          /\ launchPane.typed # None => launchPane.typed.do # "exit"
          /\ \A i \in DOMAIN launchTodo : Quiet(launchTodo[i])
      BY <1>5 DEF Continuing, Quiet
    <2>2. Quiet(s) /\ \A i \in DOMAIN launchTodo' : Quiet(launchTodo'[i])
      BY <1>1, <2>1, TailSteps
    <2> HIDE DEF s
    <2>3. launchPane'.runs = last
      BY <1>5, <2>1, <2>2, DispatchAsks DEF Quiet, Start!MayExit, s
    <2>4. launchPane'.typed # None => launchPane'.typed.do # "exit"
      BY <1>4, <2>1, <2>2 DEF Quiet, Start!MayExit
    <2> QED
      BY <2>2, <2>3, <2>4 DEF Start!Running
  <1>6. CASE ~Start!Running
    <2>1. ~TypedStart /\ Start!Gives(launchTodo, last)
      BY <1>6 DEF Continuing
    <2>2. CASE /\ s.type = "shell" /\ Start!Starts(s) /\ s.line.id = last
               /\ \A i \in DOMAIN launchTodo' : Quiet(launchTodo'[i])
      <3>1. Submits(s, s.line) /\ s.line \in PaneLine
        BY <2>2, DispatchAsks
      <3>2. Findable(s.line)
        <4>1. config.linked \/ (~config.account /\ launchPane.home = "real")
          BY DEF Start!Known, Found
        <4>2. InReal(last) \in talks /\ last \in Nat \ {0}
          BY <1>1, <4>1 DEF Found, IdOrNone
        <4> QED
          BY <2>2, <4>1, <4>2 DEF Findable, Start!Starts
      <3>3. Began(s.line) /\ launchPane'.typed = None
        BY <1>6, <3>1, <3>2 DEF Submits, Effect, Ended, Told
      <3>4. launchPane'.runs = last
        BY <2>2, <3>2, <3>3 DEF Began, Findable
      <3> QED
        BY <2>2, <3>3, <3>4 DEF Start!Running
    <2>3. CASE Quiet(s) /\ Start!Gives(launchTodo', last)
      <3>1. ~Start!Running'
        BY <1>3, <1>6, <2>1, <2>3 DEF Quiet, Start!Running
      <3>2. ~TypedStart'
        <4> HIDE DEF s
        <4> QED
          BY <1>4, <2>1, <2>3 DEF TypedStart, Quiet, Start!Starts
      <3> QED
        BY <2>3, <3>1, <3>2
    <2> QED
      BY <1>1, <2>1, <2>2, <2>3, TailGives
  <1> QED
    BY <1>5, <1>6

(* When no function runs.                                                  *)
LEMMA NoSteps ==
    /\ Start!Entered(<<>>) /\ NoStarts(<<>>) /\ NoCapture(<<>>)
    /\ ~Start!Asks(<<>>) /\ ~Start!AsksLeaving(<<>>) /\ ~CaptureNext(<<>>) /\ ~ExportFirst(<<>>)
    /\ \A id : ~Start!Gives(<<>>, id)
    /\ <<>> \in Seq(PaneStep)
  <1>1. DOMAIN <<>> = {}
    OBVIOUS
  <1>2. Start!Shells(<<>>) = {}
    BY <1>1 DEF Start!Shells
  <1> QED
    BY <1>1, <1>2 DEF Start!Entered, NoStarts, NoCapture, Start!Asks, Start!AsksLeaving,
                      CaptureNext, ExportFirst, Start!Gives

(* Nothing is left to type, and what runs is of an active agent.           *)
LEMMA AtRest ==
    ASSUME TodoShape, ~op.running
    PROVE  launchTodo = <<>> /\ ~TypedStart /\ ~Launching /\ ~Leaving
           /\ (Start!Running => state = "active")
  BY DEF TodoShape, Launching, Leaving

(* What is known of the hooks changes with the function that runs only.    *)
LEMMA KnownSame ==
    ASSUME UNCHANGED config, op'.kind = op.kind
    PROVE  Start!Known' = Start!Known
  <1>1. /\ Start!ByLeaving' = Start!ByLeaving /\ Start!ByAsking' = Start!ByAsking
        /\ Start!ByName' = Start!ByName
    BY DEF Start!ByName, Start!ByLeaving, Start!ByAsking,
           Start!GivesId, Start!Captures, Start!AsksLeaving, Start!Asks, Start!Gives,
           Start!Shells, Start!Starts, Start!MayExit, Start!Exits, Start!Key, Start!Capture,
           Start!Placeholder
  <1>2. Start!GivesId(config.resume)' = Start!GivesId(config.resume)
    BY DEF Start!GivesId, Start!Gives,
           Start!Shells, Start!Starts, Start!MayExit, Start!Exits, Start!Key, Start!Placeholder
  <1> QED
    BY <1>1, <1>2 DEF Start!Known

(* Nothing but the persona or the account changes.                         *)
LEMMA LaunchUnmoved ==
    ASSUME LaunchInv, LaunchType',
           UNCHANGED <<config, state, sid, captured, profile, launchPane, launchScreen, talks,
                       op, launchTodo, record, last>>
    PROVE  LaunchInv'
  <1>1. TodoShape'
    BY DEF LaunchInv, TodoShape, Launching, Leaving, Start!Launches, TypedStart, NoStarts,
           Start!Entered, Start!Starts, Start!Exits, Start!Key, Start!Running
  <1>2. Exported' /\ Prompted' /\ Found'
    BY DEF LaunchInv, Exported, Unkeyed, Start!Keyed, Start!Shells, Start!Key, ExportFirst,
           Launching, Start!Launches, Start!Running, Prompted, Start!UsesProfile, Found, InReal
  <1>3. OnScreen' /\ RowNames'
    BY DEF LaunchInv, OnScreen, Left, Leaving, Launching, Start!Launches, Start!Running, RowNames,
           PassesIds, Start!GivesId, Start!Gives, Start!Shells, Start!Starts, Start!MayExit,
           Start!Exits, Start!Key, Start!Placeholder, TypedStart
  <1>4. NothingCaptured' /\ LeftCaptured' /\ LaunchCaptured'
    BY DEF LaunchInv, NothingCaptured, Start!Captures, NoCapture, LeftCaptured, Start!ByLeaving,
           Start!AsksLeaving, CaptureNext, Left, Leaving, Launching, Start!Launches,
           Start!Running, Start!Exits, Start!Key, Start!Capture, LaunchCaptured, AsksAtLaunch,
           Start!Asks, Start!Shells, Start!Starts, NoStarts, TypedStart
  <1>5. Start!Known' = Start!Known
    BY KnownSame
  <1>6. /\ Start!Gives(launchTodo, last)' = Start!Gives(launchTodo, last)
        /\ (\A i \in DOMAIN launchTodo :
               ~Start!Starts(launchTodo[i]) /\ ~Start!MayExit(launchTodo[i]))'
           = \A i \in DOMAIN launchTodo :
               ~Start!Starts(launchTodo[i]) /\ ~Start!MayExit(launchTodo[i])
    BY DEF Start!Gives, Start!Shells, Start!Starts, Start!MayExit, Start!Exits, Start!Key
  <1>7. Continuing'
    BY <1>5, <1>6 DEF LaunchInv, Continuing, TypedStart, Start!Running
  <1> QED
    BY <1>1, <1>2, <1>3, <1>4, <1>7 DEF LaunchInv

(* The session ends: nothing runs, and nothing was left by a hook.         *)
LEMMA LaunchEnds ==
    ASSUME LaunchInv, ~op.running, UNCHANGED <<config, captured, launchTodo>>, LaunchType',
           ~op'.running, op'.kind \notin Start!Launches, ~Start!Running', ~TypedStart',
           launchPane'.prompt = None, last' = None, ~config.account => launchPane'.home = "real"
    PROVE  LaunchInv'
  <1>1. launchTodo' = <<>> /\ launchTodo = <<>> /\ Start!Launches' = Start!Launches
    BY AtRest DEF LaunchInv, Start!Launches
  <1>2. ~Launching' /\ ~Leaving' /\ ~Left'
    BY DEF Launching, Leaving, Left
  <1>3. TodoShape'
    <2>1. Start!Entered(launchTodo)' /\ NoStarts(launchTodo)'
      BY <1>1, NoSteps DEF Start!Entered, NoStarts
    <2> QED
      BY <1>1, <1>2, <2>1 DEF TodoShape
  <1>4. Exported' /\ Prompted' /\ Found'
    BY <1>1, <1>2 DEF Exported, Prompted, Found
  <1>5. OnScreen' /\ RowNames' /\ LeftCaptured' /\ LaunchCaptured' /\ Continuing'
    BY <1>2 DEF OnScreen, RowNames, LeftCaptured, LaunchCaptured, Continuing
  <1>6. NothingCaptured'
    BY DEF LaunchInv, NothingCaptured, NoCapture, Start!Captures
  <1> QED
    BY <1>3, <1>4, <1>5, <1>6 DEF LaunchInv

(* A pane that is gone, and a new one.                                     *)
LEMMA PanesOfLaunch ==
    /\ Start!Gone \in PaneRecord /\ Start!Gone.runs = None /\ Start!Gone.prompt = None
    /\ Start!Gone.home = "real" /\ Start!Gone.typed = None
    /\ Start!NewShell \in PaneRecord /\ Start!NewShell.runs = None /\ Start!NewShell.prompt = None
    /\ Start!NewShell.home = "real" /\ Start!NewShell.typed = None
  BY DEF Start!Gone, Start!NewShell, PaneRecord, IdOrNone

(* Kill, and the end of a CLI that nobody asked for.                       *)
LEMMA KillAgentStep ==
    ASSUME LaunchInv, Start!KillAgent
    PROVE  LaunchInv'
  <1>1. /\ ~op.running /\ op' = [op EXCEPT !.kind = "kill"] /\ sid' = None
        /\ launchPane' = Start!Gone /\ launchScreen' = None /\ last' = None
        /\ UNCHANGED <<config, persona, creds, captured, profile, talks, issued, launchTodo, record>>
    BY DEF Start!KillAgent, Start!Free
  <1>2. /\ ~op'.running /\ op'.kind = "kill" /\ op'.persona = op.persona
        /\ op' \in [kind : Start!Launches \cup {"none", "suspend", "reload", "button", "kill", "fail"},
                    running : BOOLEAN, persona : Nat]
    BY <1>1 DEF LaunchInv, LaunchType
  <1>3. PaneRecord' = PaneRecord /\ PaneStep' = PaneStep /\ Start!Launches' = Start!Launches
    BY <1>1 DEF PaneRecord, PaneLine, PaneStep, Start!Launches
  <1>4. LaunchType'
    BY <1>1, <1>2, <1>3, PanesOfLaunch DEF LaunchInv, LaunchType, IdOrNone
  <1>5. ~Start!Running' /\ ~TypedStart' /\ launchPane'.prompt = None /\ launchPane'.home = "real"
    BY <1>1, PanesOfLaunch DEF Start!Running, TypedStart
  <1>6. op'.kind \notin Start!Launches
    BY <1>2 DEF Start!Launches
  <1> QED
    BY <1>1, <1>2, <1>4, <1>5, <1>6, LaunchEnds

LEMMA FailStep ==
    ASSUME LaunchInv, Start!Fail
    PROVE  LaunchInv'
  <1> DEFINE Bare == [launchPane EXCEPT !.runs = None, !.prompt = None]
  <1>1. /\ ~op.running /\ op' = [op EXCEPT !.kind = "fail"]
        /\ launchPane' \in {Start!Gone, Bare} /\ launchScreen' = None /\ last' = None
        /\ UNCHANGED <<config, persona, creds, sid, captured, profile, talks, issued, launchTodo,
                       record>>
    BY DEF Start!Fail, Start!Free
  <1>2. /\ ~op'.running /\ op'.kind = "fail" /\ op'.persona = op.persona
        /\ op' \in [kind : Start!Launches \cup {"none", "suspend", "reload", "button", "kill", "fail"},
                    running : BOOLEAN, persona : Nat]
    BY <1>1 DEF LaunchInv, LaunchType
  <1>3. PaneRecord' = PaneRecord /\ PaneStep' = PaneStep /\ Start!Launches' = Start!Launches
    BY <1>1 DEF PaneRecord, PaneLine, PaneStep, Start!Launches
  <1>4. /\ Bare \in PaneRecord /\ Bare.runs = None /\ Bare.prompt = None
        /\ Bare.home = launchPane.home /\ Bare.typed = launchPane.typed
    BY DEF LaunchInv, LaunchType, PaneRecord, IdOrNone
  <1>5. ~TypedStart
    BY <1>1, AtRest DEF LaunchInv
  <1> HIDE DEF Bare
  <1>6. LaunchType'
    BY <1>1, <1>2, <1>3, <1>4, PanesOfLaunch DEF LaunchInv, LaunchType, IdOrNone
  <1>7. /\ ~Start!Running' /\ ~TypedStart' /\ launchPane'.prompt = None
        /\ ~config.account => launchPane'.home = "real"
    BY <1>1, <1>4, <1>5, PanesOfLaunch DEF Start!Running, TypedStart, LaunchInv, Found
  <1>8. op'.kind \notin Start!Launches
    BY <1>2 DEF Start!Launches
  <1> QED
    BY <1>1, <1>2, <1>6, <1>7, <1>8, LaunchEnds

(* The lines of the adapters.                                              *)
LEMMA AdapterLines ==
    ASSUME NEW id \in IdOrNone
    PROVE  LET e == config.engine
           IN /\ Start!BuildSpawn(e, id) \in PaneLine /\ Start!BuildSpawn(e, id).do = "start"
              /\ e = "claude" => Start!BuildSpawn(e, id).id = id
              /\ Start!BuildResume(e, id) \in PaneLine /\ Start!BuildResume(e, id).do = "resume"
              /\ Start!BuildResume(e, id).id = id
  <1> DEFINE e == config.engine
             P == Start!Prompts(e)
             given == IF e = "claude" THEN id ELSE None
  <1>1. Start!Prompt(e) \in P
    BY Zenon DEF Start!Prompt, Start!Prompts
  <1>2. PaneLine = [do : Start!Verbs, id : Nat \cup {None}, prompt : P, export : BOOLEAN]
    BY DEF PaneLine, Start!Lines
  <1>3. Start!BuildSpawn(e, id) = [do |-> "start", id |-> given, prompt |-> Start!Prompt(e), export |-> FALSE]
    BY DEF Start!BuildSpawn, Start!Line
  <1>4. Start!BuildResume(e, id) = [do |-> "resume", id |-> id, prompt |-> Start!Prompt(e), export |-> FALSE]
    BY DEF Start!BuildResume, Start!Line
  <1>5. given \in Nat \cup {None} /\ id \in Nat \cup {None}
        /\ "start" \in Start!Verbs /\ "resume" \in Start!Verbs
    BY DEF IdOrNone, Start!Verbs
  <1> DEFINE p == Start!Prompt(e)
  <1> HIDE DEF P, p
  <1>6. /\ [do |-> "start", id |-> given, prompt |-> p, export |-> FALSE] \in PaneLine
        /\ [do |-> "resume", id |-> id, prompt |-> p, export |-> FALSE] \in PaneLine
    BY <1>1, <1>2, <1>5 DEF p
  <1> QED
    BY <1>3, <1>4, <1>6 DEF p

(* A launch begins, by the start hook or the resume hook.                  *)
LEMMA LaunchBegins ==
    ASSUME LaunchInv, LaunchType', UNCHANGED <<config, captured>>, Found',
           op'.running, op'.kind \in Start!Launches,
           ~Start!Running', ~TypedStart', launchPane'.prompt = None,
           Start!UsesProfile(config.engine) => profile' >= op'.persona,
           NEW again \in BOOLEAN, NEW id \in IdOrNone, NEW l \in PaneLine,
           NEW h \in IdOrNone, id # None => h = id,
           l.do \in {"start", "resume"},
           again \/ config.engine = "claude" => l.id = id /\ id # None,
           launchTodo' = LaunchSteps(IF again THEN config.resume ELSE config.start, l, h),
           record' = id,
           op'.kind \in {"resume", "relaunch"} /\ last' # None /\ Start!Known' =>
               again /\ id = last'
    PROVE  LaunchInv'
  <1> DEFINE hook == IF again THEN config.resume ELSE config.start
  <1>1. config \in Config /\ hook \in {config.start, config.resume}
    BY DEF LaunchInv, LaunchType
  <1>2. /\ launchTodo' \in Seq(PaneStep) /\ Start!Entered(launchTodo')
        /\ ~Start!Keyed(hook) => ExportFirst(launchTodo')
        /\ Start!GivesId(hook) /\ l.id = h => Start!Gives(launchTodo', h)
        /\ ~Start!Captures(hook) => NoCapture(launchTodo')
        /\ hook # None /\ Start!Asks(hook) => Start!Asks(launchTodo')
    BY <1>1, StepsOfLaunch
  <1>3. /\ Launching' /\ ~Leaving' /\ ~Left' /\ Start!Launches' = Start!Launches
    BY DEF Launching, Leaving, Left, Start!Launches
  <1>4. TodoShape'
    <2>1. Start!Entered(launchTodo)'
      BY <1>2 DEF Start!Entered, Start!Starts, Start!Key
    <2> QED
      BY <1>3, <2>1 DEF TodoShape
  <1>5. Exported'
    <2>1. Unkeyed' => ~Start!Keyed(hook)
      BY DEF Unkeyed, Start!Keyed, Start!Shells, Start!Key
    <2>2. ExportFirst(launchTodo') => ExportFirst(launchTodo)'
      BY DEF ExportFirst, Start!Key
    <2> QED
      BY <1>2, <2>1, <2>2 DEF Exported
  <1>6. Prompted'
    BY DEF Prompted, Start!UsesProfile
  <1>7. OnScreen' /\ LeftCaptured'
    BY <1>3 DEF OnScreen, LeftCaptured
  <1>8. RowNames'
    <2>1. ASSUME PassesIds
          PROVE  /\ record' # None
                 /\ \A i \in DOMAIN launchTodo' :
                      Start!Starts(launchTodo'[i]) =>
                          launchTodo'[i].type = "shell" /\ launchTodo'[i].line.id = record'
      <3>1. Start!Gives(launchTodo', id) /\ id # None
        BY <1>2, <2>1 DEF PassesIds
      <3> QED
        BY <3>1, GivenId
    <2>2. PassesIds' = PassesIds
      BY DEF PassesIds, Start!GivesId, Start!Gives, Start!Shells, Start!Starts, Start!MayExit,
             Start!Exits, Start!Key, Start!Placeholder
    <2>3. PassesIds' => (\A i \in DOMAIN launchTodo :
                      Start!Starts(launchTodo[i]) =>
                          launchTodo[i].type = "shell" /\ launchTodo[i].line.id = record)'
      BY <2>1, <2>2 DEF Start!Starts
    <2> QED
      BY <1>3, <2>1, <2>2, <2>3 DEF RowNames
  <1>9. NothingCaptured'
    <2>1. NoCapture(launchTodo') => NoCapture(launchTodo)'
      BY DEF NoCapture
    <2> QED
      BY <1>1, <1>2, <2>1 DEF LaunchInv, NothingCaptured, Start!Captures
  <1>10. LaunchCaptured'
    <2>1. AsksAtLaunch' => hook # None /\ Start!Asks(hook)
      BY DEF AsksAtLaunch, Start!Asks, Start!Shells, Start!Starts, Start!Capture
    <2>2. Start!Asks(launchTodo') => Start!Asks(launchTodo)'
      BY DEF Start!Asks, Start!Shells, Start!Starts, Start!Capture
    <2> QED
      BY <1>2, <1>3, <2>1, <2>2 DEF LaunchCaptured
  <1>11. Continuing'
    <2> SUFFICES ASSUME op'.kind \in {"resume", "relaunch"}, last' # None, Start!Known'
                 PROVE  Start!Gives(launchTodo, last)'
      BY DEF Continuing
    <2>1. again /\ id = last'
      OBVIOUS
    <2>2. Start!GivesId(hook)
      BY <2>1 DEF Start!Known, Start!GivesId, Start!Gives, Start!Shells, Start!Starts,
                  Start!MayExit, Start!Exits, Start!Key, Start!Placeholder
    <2>3. Start!Gives(launchTodo', last')
      BY <1>2, <2>1, <2>2
    <2> QED
      BY <2>3 DEF Start!Gives, Start!Shells, Start!Starts, Start!MayExit, Start!Exits, Start!Key
  <1> QED
    BY <1>4, <1>5, <1>6, <1>7, <1>8, <1>9, <1>10, <1>11 DEF LaunchInv

(* A HOME that is wiped holds none of the conversations of the real one.   *)
LEMMA ScaffoldKeeps ==
    ASSUME LaunchType, Start!Scaffold
    PROVE  talks' \subseteq Talk /\ \A id : InReal(id) \in talks => InReal(id) \in talks'
  BY DEF LaunchType, Start!Scaffold, InReal

(* The profile is the persona of the launch.                               *)
LEMMA ProfileIsWritten ==
    ASSUME LaunchType, Start!WriteProfile
    PROVE  profile' \in Int /\ (Start!UsesProfile(config.engine) => profile' = persona)
  BY DEF LaunchType, Start!WriteProfile

(* A spawn starts anew, and nothing was left.                              *)
LEMMA SpawnAgentStep ==
    ASSUME LaunchInv, NEW kind \in {"spawn", "recover"}, Start!SpawnAgent(kind)
    PROVE  LaunchInv'
  <1> DEFINE id == Start!Fresh
             l == Start!BuildSpawn(config.engine, id)
  <1>1. /\ ~op.running /\ op' = [kind |-> kind, running |-> TRUE, persona |-> persona]
        /\ launchPane' = Start!NewShell /\ launchScreen' = None /\ last' = None
        /\ issued' = id /\ record' = id
        /\ Start!WriteProfile /\ Start!Scaffold
        /\ launchTodo' = LaunchSteps(config.start, l, Start!Named(id))
        /\ UNCHANGED <<config, persona, creds, state, sid, captured>>
    BY DEF Start!SpawnAgent, Start!Call, Start!Free, Start!StartSteps, LaunchSteps
  <1>2. id \in IdOrNone /\ id \in Nat /\ id # None /\ Start!Named(id) = id
    BY LaunchConstants DEF LaunchInv, LaunchType, Start!Fresh, IdOrNone, Start!Named
  <1> HIDE DEF id
  <1>3. l \in PaneLine /\ l.do = "start" /\ (config.engine = "claude" => l.id = id)
    BY <1>2, AdapterLines
  <1> HIDE DEF l
  <1>4. PaneRecord' = PaneRecord /\ PaneStep' = PaneStep /\ Start!Launches' = Start!Launches
        /\ Start!Launches = {"spawn", "recover", "resume", "relaunch"}
    BY <1>1 DEF PaneRecord, PaneLine, PaneStep, Start!Launches
  <1>5. launchTodo' \in Seq(PaneStep)
    BY <1>1, <1>2, <1>3, StepsOfLaunch DEF LaunchInv, LaunchType
  <1>6. op' \in [kind : Start!Launches \cup {"none", "suspend", "reload", "button", "kill", "fail"},
                 running : BOOLEAN, persona : Nat] /\ op'.persona = persona
    BY <1>1, <1>4 DEF LaunchInv, LaunchType
  <1>7. LaunchType'
    BY <1>1, <1>2, <1>4, <1>5, <1>6, PanesOfLaunch, ScaffoldKeeps, ProfileIsWritten
    DEF LaunchInv, LaunchType, IdOrNone
  <1>8. /\ ~Start!Running' /\ ~TypedStart' /\ launchPane'.prompt = None
        /\ op'.running /\ op'.kind = kind /\ Found'
    BY <1>1, PanesOfLaunch DEF Start!Running, TypedStart, Found
  <1>9. Start!UsesProfile(config.engine) => profile' >= op'.persona
    BY <1>1, <1>6, ProfileIsWritten DEF LaunchInv, LaunchType
  <1> QED
    BY <1>1, <1>2, <1>3, <1>4, <1>7, <1>8, <1>9, LaunchBegins

(* Types of what resolveResumeOrStartHook sets.                            *)
LEMMA ContinueType ==
    ASSUME LaunchType, NEW past \in IdOrNone, Start!Continue(past)
    PROVE  launchTodo' \in Seq(PaneStep) /\ record' \in IdOrNone /\ issued' \in Nat
  <1>1. Start!Fresh \in IdOrNone /\ Start!Fresh \in Nat /\ None \in IdOrNone /\ issued \in Nat
        /\ config \in Config
    BY DEF LaunchType, Start!Fresh, IdOrNone
  <1>2. \A id \in IdOrNone : Start!StartSteps(id) \in Seq(PaneStep)
                           /\ Start!ResumeSteps(id) \in Seq(PaneStep)
    <2> TAKE id \in IdOrNone
    <2> DEFINE s == Start!BuildSpawn(config.engine, id)
               r == Start!BuildResume(config.engine, id)
    <2>1. /\ s \in PaneLine /\ s.do \in {"start", "resume"}
          /\ r \in PaneLine /\ r.do \in {"start", "resume"}
      BY AdapterLines
    <2>2. /\ Start!StartSteps(id) = LaunchSteps(config.start, s, Start!Named(id))
          /\ Start!ResumeSteps(id) = LaunchSteps(config.resume, r, Start!Named(id))
      BY DEF Start!StartSteps, Start!ResumeSteps, LaunchSteps
    <2>3. Start!Named(id) \in IdOrNone
      BY DEF Start!Named, LaunchType
    <2> HIDE DEF s, r
    <2> QED
      BY <1>1, <2>1, <2>2, <2>3, StepsOfLaunch
  <1> QED
    BY <1>1, <1>2 DEF Start!Continue

(* resolveResumeOrStartHook, as it is called by resume and by reload.      *)
LEMMA ContinueStep ==
    ASSUME LaunchInv, LaunchType', UNCHANGED <<config, captured>>, Found',
           op'.running, op'.kind \in {"resume", "relaunch"},
           ~Start!Running', ~TypedStart', launchPane'.prompt = None,
           Start!UsesProfile(config.engine) => profile' >= op'.persona,
           NEW past \in IdOrNone, Start!Continue(past),
           last' # None /\ Start!Known' => past = last'
    PROVE  LaunchInv'
  <1>1. op'.kind \in Start!Launches
    BY DEF Start!Launches
  <1>2. CASE past # None
    <2> DEFINE l == Start!BuildResume(config.engine, past)
    <2>1. l \in PaneLine /\ l.do = "resume" /\ l.id = past
      BY AdapterLines
    <2>2. launchTodo' = LaunchSteps(config.resume, l, past) /\ record' = past
      BY <1>2 DEF Start!Continue, Start!ResumeSteps, Start!Named, LaunchSteps
    <2> HIDE DEF l
    <2>3. launchTodo' = LaunchSteps(IF TRUE THEN config.resume ELSE config.start, l, past)
      BY <2>2
    <2> QED
      BY <1>1, <1>2, <2>1, <2>2, <2>3, LaunchBegins
  <1>3. CASE past = None
    <2> DEFINE id == IF config.engine = "claude" THEN Start!Fresh ELSE None
               l == Start!BuildSpawn(config.engine, id)
               h == Start!Named(id)
    <2>1. id \in IdOrNone /\ (config.engine = "claude" => id # None)
      BY LaunchConstants DEF LaunchInv, LaunchType, Start!Fresh, IdOrNone
    <2>2. launchTodo' = LaunchSteps(config.start, l, h) /\ record' = id
      BY <1>3 DEF Start!Continue, Start!StartSteps, LaunchSteps
    <2>5. h \in IdOrNone /\ (id # None => h = id)
      BY <2>1 DEF Start!Named, LaunchInv, LaunchType
    <2> HIDE DEF id
    <2>3. l \in PaneLine /\ l.do = "start" /\ (config.engine = "claude" => l.id = id)
      BY <2>1, AdapterLines
    <2> HIDE DEF l
    <2> HIDE DEF h
    <2>4. launchTodo' = LaunchSteps(IF FALSE THEN config.resume ELSE config.start, l, h)
      BY <2>2
    <2> QED
      BY <1>1, <1>3, <2>1, <2>2, <2>3, <2>4, <2>5, LaunchBegins
  <1> QED
    BY <1>2, <1>3

(* The id by which an agent is continued is the one of the conversation    *)
(* that was left.                                                          *)
LEMMA PastIsKnown ==
    ASSUME LaunchInv, Left, launchTodo = <<>>, UNCHANGED config,
           op'.kind \in {"resume", "relaunch"}, Start!Known'
    PROVE  IF op'.kind = "resume" THEN sid = last ELSE Start!ReloadId = last
  <1>1. last # None
    BY DEF Left
  <1>2. CASE Start!ByName'
    <2>4. /\ Start!GivesId(config.start)' = Start!GivesId(config.start)
          /\ Start!GivesId(config.resume)' = Start!GivesId(config.resume)
      BY DEF Start!GivesId, Start!Gives, Start!Shells, Start!Starts, Start!MayExit,
             Start!Exits, Start!Key, Start!Placeholder
    <2>1. PassesIds
      BY <1>2, <2>4 DEF Start!Known, Start!ByName, PassesIds
    <2>2. sid = last
      BY <2>1 DEF LaunchInv, RowNames
    <2>3. op'.kind = "relaunch" => captured = None
      BY <1>2 DEF Start!ByName, Start!Captures, LaunchInv, NothingCaptured
    <2> QED
      BY <2>2, <2>3 DEF Start!ReloadId
  <1>3. CASE Start!ByLeaving'
    <2>1. Start!ByLeaving
      BY <1>3 DEF Start!ByLeaving, Start!AsksLeaving, Start!Exits, Start!Key, Start!Capture
    <2>2. sid = last /\ captured = last
      BY <2>1, NoSteps DEF LaunchInv, LeftCaptured
    <2> QED
      BY <1>1, <2>2 DEF Start!ReloadId
  <1>4. CASE Start!ByAsking'
    <2>1. op'.kind = "relaunch" /\ AsksAtLaunch
      BY <1>4 DEF Start!ByAsking, AsksAtLaunch, Start!Asks, Start!Shells, Start!Starts,
                  Start!Capture
    <2>2. captured = last
      BY <2>1 DEF LaunchInv, LaunchCaptured
    <2> QED
      BY <1>1, <2>1, <2>2 DEF Start!ReloadId
  <1> QED
    BY <1>2, <1>3, <1>4 DEF Start!Known

(* Both continue, by the id on the row or by the captured one.             *)
LEMMA ResumeAgentStep ==
    ASSUME LaunchInv, Start!ResumeAgent
    PROVE  LaunchInv'
  <1>1. /\ ~op.running /\ op' = [kind |-> "resume", running |-> TRUE, persona |-> persona]
        /\ launchPane' = (IF launchPane.open THEN launchPane ELSE Start!NewShell)
        /\ launchScreen' = (IF launchPane.open THEN launchScreen ELSE None)
        /\ Start!WriteProfile /\ Start!Scaffold /\ Start!Continue(sid)
        /\ state \in {"suspended", "failed"}
        /\ UNCHANGED <<config, persona, creds, state, sid, captured, last>>
    BY DEF Start!ResumeAgent, Start!Call, Start!Free
  <1>2. LaunchType /\ TodoShape /\ Found
    BY DEF LaunchInv
  <1>3. launchTodo = <<>> /\ ~TypedStart /\ ~Launching /\ ~Start!Running /\ launchPane.prompt = None
    BY <1>1, <1>2, AtRest DEF TodoShape
  <1>4. PaneRecord' = PaneRecord /\ PaneStep' = PaneStep /\ Start!Launches' = Start!Launches
        /\ Start!Launches = {"spawn", "recover", "resume", "relaunch"}
    BY <1>1 DEF PaneRecord, PaneLine, PaneStep, Start!Launches
  <1>5. op' \in [kind : Start!Launches \cup {"none", "suspend", "reload", "button", "kill", "fail"},
                 running : BOOLEAN, persona : Nat]
        /\ op'.persona = persona /\ op'.kind = "resume" /\ op'.running
    BY <1>1, <1>2, <1>4 DEF LaunchType
  <1>6. launchPane' \in PaneRecord /\ launchScreen' \in IdOrNone
    BY <1>1, <1>2, PanesOfLaunch DEF LaunchType, IdOrNone
  <1>7. launchTodo' \in Seq(PaneStep) /\ record' \in IdOrNone /\ issued' \in Nat
    BY <1>1, <1>2, ContinueType DEF LaunchType
  <1>8. LaunchType'
    BY <1>1, <1>2, <1>4, <1>5, <1>6, <1>7, ScaffoldKeeps, ProfileIsWritten DEF LaunchType
  <1>9. ~Start!Running' /\ ~TypedStart' /\ launchPane'.prompt = None
    BY <1>1, <1>3, PanesOfLaunch DEF Start!Running, TypedStart
  <1>10. Found'
    BY <1>1, <1>2, <1>9, ScaffoldKeeps, PanesOfLaunch DEF Found, InReal
  <1>11. Start!UsesProfile(config.engine) => profile' >= op'.persona
    BY <1>1, <1>2, <1>5, ProfileIsWritten DEF LaunchType
  <1>12. last' # None /\ Start!Known' => sid = last'
    <2> SUFFICES ASSUME last # None, Start!Known' PROVE sid = last
      BY <1>1
    <2>1. Left
      BY <1>1, <1>2, <1>3 DEF Left, Found
    <2> QED
      BY <1>1, <1>3, <1>5, <2>1, PastIsKnown
  <1> QED
    BY <1>1, <1>2, <1>5, <1>8, <1>9, <1>10, <1>11, <1>12, ContinueStep DEF LaunchType

LEMMA RelaunchStep ==
    ASSUME LaunchInv, Start!Relaunch
    PROVE  LaunchInv'
  <1>1. /\ op.running /\ op.kind = "reload" /\ launchTodo = <<>>
        /\ op' = [op EXCEPT !.kind = "relaunch"]
        /\ launchPane' = Start!NewShell /\ launchScreen' = None
        /\ Start!WriteProfile /\ Start!Scaffold /\ Start!Continue(Start!ReloadId)
        /\ UNCHANGED <<config, persona, creds, state, sid, captured, last>>
    BY DEF Start!Relaunch
  <1>2. LaunchType /\ TodoShape /\ Found
    BY DEF LaunchInv
  <1>3. PaneRecord' = PaneRecord /\ PaneStep' = PaneStep /\ Start!Launches' = Start!Launches
        /\ Start!Launches = {"spawn", "recover", "resume", "relaunch"}
    BY <1>1 DEF PaneRecord, PaneLine, PaneStep, Start!Launches
  <1>4. op' \in [kind : Start!Launches \cup {"none", "suspend", "reload", "button", "kill", "fail"},
                 running : BOOLEAN, persona : Nat]
        /\ op'.persona = op.persona /\ op'.kind = "relaunch" /\ op'.running
    BY <1>1, <1>2, <1>3 DEF LaunchType
  <1>5. Start!ReloadId \in IdOrNone
    BY <1>2 DEF LaunchType, Start!ReloadId
  <1>6. launchPane' \in PaneRecord /\ launchScreen' \in IdOrNone
    BY <1>1, PanesOfLaunch DEF IdOrNone
  <1>7. launchTodo' \in Seq(PaneStep) /\ record' \in IdOrNone /\ issued' \in Nat
    BY <1>1, <1>2, <1>5, ContinueType
  <1>8. LaunchType'
    BY <1>1, <1>2, <1>3, <1>4, <1>6, <1>7, ScaffoldKeeps, ProfileIsWritten DEF LaunchType
  <1>9. ~Start!Running' /\ ~TypedStart' /\ launchPane'.prompt = None
    BY <1>1, PanesOfLaunch DEF Start!Running, TypedStart
  <1>10. Found'
    BY <1>1, <1>2, <1>9, ScaffoldKeeps, PanesOfLaunch DEF Found, InReal
  <1>11. Start!UsesProfile(config.engine) => profile' >= op'.persona
    BY <1>1, <1>2, <1>4, ProfileIsWritten DEF LaunchType
  <1>12. last' # None /\ Start!Known' => Start!ReloadId = last'
    <2> SUFFICES ASSUME last # None, Start!Known' PROVE Start!ReloadId = last
      BY <1>1
    <2>1. Left
      BY <1>1 DEF Left, Leaving
    <2> QED
      BY <1>1, <1>4, <2>1, PastIsKnown
  <1> QED
    BY <1>1, <1>4, <1>5, <1>8, <1>9, <1>10, <1>11, <1>12, ContinueStep

(* What an exit hook and a button type.                                    *)
LEMMA StepsOfExit ==
    ASSUME LaunchType
    PROVE  /\ Start!ExitSteps \in Seq(PaneStep) /\ Start!Entered(Start!ExitSteps)
           /\ NoStarts(Start!ExitSteps)
           /\ \E i \in DOMAIN Start!ExitSteps : Start!Exits(Start!ExitSteps[i])
           /\ ~Start!Captures(config.exit) => NoCapture(Start!ExitSteps)
           /\ Start!ByLeaving => Start!AsksLeaving(Start!ExitSteps)
  <1> DEFINE s == Start!ExitSteps
  <1>1. config \in Config /\ None \in IdOrNone
    BY DEF LaunchType, IdOrNone
  <1>2. CASE config.exit = None
    <2> DEFINE x == s[1]
    <2>1. s = Start!BuildExit(config.engine)
      BY <1>2 DEF Start!ExitSteps, Start!ResolveHook
    <2>2. \E y \in PaneStep : s = <<y>> /\ ~Start!Starts(y) /\ Start!Exits(y) /\ y.type # "capture"
      <3>1. CASE config.engine = "opencode"
        <4>1. s = <<Start!Key("C-c")>>
          BY <2>1, <3>1 DEF Start!BuildExit
        <4>2. Start!Key("C-c") \in PaneStep
          BY DEF PaneStep, Start!Steps, Start!Key, Start!Keys
        <4> QED
          BY <4>1, <4>2 DEF Start!Starts, Start!Exits, Start!Key
      <3>2. CASE config.engine # "opencode"
        <4> DEFINE l == Start!Line("exit", None, None)
                   y == Start!Shell(l)
        <4>1. s = <<y>>
          BY <2>1, <3>2 DEF Start!BuildExit
        <4>2. l \in PaneLine /\ l.do = "exit"
          BY ExitLine
        <4> HIDE DEF l
        <4>3. y \in PaneStep /\ y.type = "shell" /\ y.line = l
          BY <4>2, LineStep DEF Start!Shell
        <4> HIDE DEF y
        <4> QED
          BY <4>1, <4>2, <4>3 DEF Start!Starts, Start!Exits
      <3> QED
        BY <3>1, <3>2
    <2> HIDE DEF s
    <2>3. PICK y \in PaneStep :
            s = <<y>> /\ ~Start!Starts(y) /\ Start!Exits(y) /\ y.type # "capture"
      BY <2>2
    <2>4. s \in Seq(PaneStep) /\ DOMAIN s = {1} /\ s[1] = y
      BY <2>3
    <2>5. NoStarts(s) /\ NoCapture(s) /\ Start!Entered(s)
          /\ \E i \in DOMAIN s : Start!Exits(s[i])
      BY <2>3, <2>4 DEF NoStarts, NoCapture, Start!Entered
    <2> QED
      BY <1>2, <2>4, <2>5 DEF Start!ByLeaving, s
  <1>3. CASE config.exit # None
    <2>1. /\ config.exit \in Start!Hook(config.engine) /\ NoStarts(config.exit)
          /\ \E i \in DOMAIN config.exit : Start!Exits(config.exit[i])
      BY <1>1, <1>3, LaunchConstants
    <2>2. Alike(config.exit, s)
      BY <1>1, <1>3, <2>1, ResolvedHook DEF Start!ExitSteps
    <2> HIDE DEF s
    <2>3. /\ s \in Seq(PaneStep) /\ NoStarts(s) /\ (NoCapture(config.exit) => NoCapture(s))
          /\ \E i \in DOMAIN s : Start!Exits(s[i])
          /\ Start!AsksLeaving(config.exit) => Start!AsksLeaving(s)
      BY <2>1, <2>2, AlikeHooks DEF Alike
    <2>4. Start!Entered(s)
      BY <2>3 DEF Start!Entered, NoStarts
    <2> QED
      BY <1>3, <2>3, <2>4 DEF Start!ByLeaving, Start!Captures, NoCapture, s
  <1> QED
    BY <1>2, <1>3

LEMMA StepsOfButton ==
    ASSUME LaunchType, NEW id \in IdOrNone
    PROVE  LET s == Start!ResolveHook(config.button, <<>>, id)
           IN /\ s \in Seq(PaneStep) /\ Start!Entered(s) /\ NoStarts(s)
              /\ ~Start!Captures(config.button) => NoCapture(s)
  <1> DEFINE s == Start!ResolveHook(config.button, <<>>, id)
  <1>1. config \in Config
    BY DEF LaunchType
  <1>2. CASE config.button = None
    <2>1. s = <<>>
      BY <1>2 DEF Start!ResolveHook
    <2> QED
      BY <2>1, NoSteps
  <1>3. CASE config.button # None
    <2>1. config.button \in Start!Hook(config.engine) /\ NoStarts(config.button)
      BY <1>1, <1>3, LaunchConstants
    <2>2. Alike(config.button, s)
      BY <1>3, <2>1, ResolvedHook
    <2> HIDE DEF s
    <2>3. s \in Seq(PaneStep) /\ NoStarts(s) /\ (NoCapture(config.button) => NoCapture(s))
      BY <2>1, <2>2, AlikeHooks DEF Alike
    <2>4. Start!Entered(s)
      BY <2>3 DEF Start!Entered, NoStarts
    <2> QED
      BY <1>3, <2>3, <2>4 DEF Start!Captures, NoCapture, s
  <1> QED
    BY <1>2, <1>3

(* The function that runs starts no CLI: what is exported, what prompt the *)
(* CLI has, and what can be found are as before.                           *)
LEMMA ExitAgentStep ==
    ASSUME LaunchInv, NEW kind \in {"suspend", "reload"}, Start!ExitAgent(kind)
    PROVE  LaunchInv'
  <1>1. /\ ~op.running /\ state = "active"
        /\ op' = [kind |-> kind, running |-> TRUE, persona |-> persona]
        /\ launchTodo' = Start!ExitSteps /\ record' = sid /\ last' = launchPane.runs
        /\ UNCHANGED <<config, persona, creds, state, sid, captured, profile, launchPane,
                       launchScreen, talks, issued>>
    BY DEF Start!ExitAgent, Start!Call, Start!Free
  <1>2. LaunchType /\ TodoShape
    BY DEF LaunchInv
  <1>3. launchTodo = <<>> /\ ~TypedStart /\ ~Launching
    BY <1>1, <1>2, AtRest
  <1> DEFINE s == Start!ExitSteps
  <1>4. /\ s \in Seq(PaneStep) /\ Start!Entered(s) /\ NoStarts(s)
        /\ \E i \in DOMAIN s : Start!Exits(s[i])
        /\ ~Start!Captures(config.exit) => NoCapture(s)
        /\ Start!ByLeaving => Start!AsksLeaving(s)
    BY <1>2, StepsOfExit
  <1> HIDE DEF s
  <1>5. /\ PaneRecord' = PaneRecord /\ PaneStep' = PaneStep /\ Start!Launches' = Start!Launches
        /\ Start!Launches = {"spawn", "recover", "resume", "relaunch"}
        /\ Start!Running' = Start!Running /\ launchTodo' = s /\ TypedStart' = TypedStart
    BY <1>1 DEF PaneRecord, PaneLine, PaneStep, Start!Launches, Start!Running, TypedStart, s
  <1>6. op' \in [kind : Start!Launches \cup {"none", "suspend", "reload", "button", "kill", "fail"},
                 running : BOOLEAN, persona : Nat]
        /\ op'.persona = persona /\ op'.kind = kind /\ op'.running
    BY <1>1, <1>2, <1>5 DEF LaunchType
  <1>7. LaunchType'
    <2>1. launchPane.runs \in IdOrNone
      BY <1>2 DEF LaunchType, PaneRecord
    <2> QED
      BY <1>1, <1>2, <1>4, <1>5, <1>6, <2>1 DEF LaunchType
  <1>8. /\ Leaving' /\ ~Launching' /\ op'.kind \notin Start!Launches
        /\ Left' <=> Start!Running
    BY <1>1, <1>5, <1>6 DEF Leaving, Launching, Left, Start!Running
  <1>9. TodoShape'
    <2>1. /\ Start!Entered(launchTodo)' /\ NoStarts(launchTodo)'
          /\ (\E i \in DOMAIN launchTodo : Start!Exits(launchTodo[i]))'
      BY <1>4, <1>5 DEF Start!Entered, NoStarts, Start!Starts, Start!Exits, Start!Key
    <2> QED
      BY <1>1, <1>2, <1>3, <1>5, <1>6, <1>8, <2>1 DEF TodoShape
  <1>10. Exported' /\ Prompted'
    BY <1>1, <1>5, <1>6, <1>8 DEF LaunchInv, Exported, Unkeyed, Start!Keyed, Start!Shells,
                                  Start!Key, Prompted
  <1>11. Found'
    BY <1>1, <1>5 DEF LaunchInv, Found, InReal, Start!Running
  <1>12. OnScreen'
    BY <1>1, <1>5, <1>8 DEF LaunchInv, OnScreen
  <1>13. RowNames'
    <2>1. PassesIds' = PassesIds
      BY <1>1 DEF PassesIds, Start!GivesId, Start!Gives, Start!Shells, Start!Starts,
                  Start!MayExit, Start!Exits, Start!Key, Start!Placeholder
    <2>2. PassesIds /\ Start!Running => sid = launchPane.runs
      BY <1>1, <1>3 DEF LaunchInv, RowNames
    <2> QED
      BY <1>1, <1>5, <1>8, <2>1, <2>2 DEF RowNames
  <1>14. NothingCaptured'
    BY <1>1, <1>4, <1>5 DEF LaunchInv, NothingCaptured, Start!Captures, NoCapture
  <1>15. LeftCaptured'
    <2>1. Start!ByLeaving' = Start!ByLeaving
          /\ (Start!AsksLeaving(s) => Start!AsksLeaving(launchTodo)')
      BY <1>1, <1>5 DEF Start!ByLeaving, Start!AsksLeaving, Start!Exits, Start!Key, Start!Capture
    <2> QED
      BY <1>4, <1>5, <1>8, <2>1 DEF LeftCaptured
  <1>16. LaunchCaptured'
    <2>1. AsksAtLaunch' = AsksAtLaunch
      BY <1>1 DEF AsksAtLaunch, Start!Asks, Start!Shells, Start!Starts, Start!Capture
    <2> QED
      BY <1>1, <1>3, <1>5, <1>8, <2>1 DEF LaunchInv, LaunchCaptured
  <1>17. Continuing'
    BY <1>6 DEF Continuing
  <1> QED
    BY <1>7, <1>9, <1>10, <1>11, <1>12, <1>13, <1>14, <1>15, <1>16, <1>17 DEF LaunchInv

LEMMA ButtonStep ==
    ASSUME LaunchInv, Start!ExecuteCustomButton
    PROVE  LaunchInv'
  <1> DEFINE s == Start!ResolveHook(config.button, <<>>, Start!Named(sid))
  <1>1. /\ ~op.running /\ launchTodo' = s /\ record' = sid
        /\ op' = [kind |-> "button", running |-> TRUE, persona |-> persona]
        /\ UNCHANGED <<config, persona, creds, state, sid, captured, profile, launchPane,
                       launchScreen, talks, issued, last>>
    BY DEF Start!ExecuteCustomButton, Start!Call, Start!Free
  <1>2. LaunchType /\ TodoShape
    BY DEF LaunchInv
  <1>3. launchTodo = <<>> /\ ~TypedStart /\ ~Launching /\ ~Leaving
        /\ (Start!Running => state = "active")
    BY <1>1, <1>2, AtRest
  <1>4. /\ s \in Seq(PaneStep) /\ Start!Entered(s) /\ NoStarts(s)
        /\ ~Start!Captures(config.button) => NoCapture(s)
    <2>1. Start!Named(sid) \in IdOrNone
      BY <1>2 DEF LaunchType, Start!Named
    <2> QED
      BY <1>2, <2>1, StepsOfButton
  <1> HIDE DEF s
  <1>5. /\ PaneRecord' = PaneRecord /\ PaneStep' = PaneStep /\ Start!Launches' = Start!Launches
        /\ Start!Launches = {"spawn", "recover", "resume", "relaunch"}
        /\ Start!Running' = Start!Running /\ launchTodo' = s /\ TypedStart' = TypedStart
    BY <1>1 DEF PaneRecord, PaneLine, PaneStep, Start!Launches, Start!Running, TypedStart, s
  <1>6. op' \in [kind : Start!Launches \cup {"none", "suspend", "reload", "button", "kill", "fail"},
                 running : BOOLEAN, persona : Nat]
        /\ op'.persona = persona /\ op'.kind = "button" /\ op'.running
    BY <1>1, <1>2, <1>5 DEF LaunchType
  <1>7. LaunchType'
    BY <1>1, <1>2, <1>4, <1>5, <1>6 DEF LaunchType
  <1>8. /\ ~Leaving' /\ ~Launching' /\ op'.kind \notin Start!Launches
        /\ Left' = Left
    BY <1>1, <1>3, <1>5, <1>6 DEF Leaving, Launching, Left
  <1>9. TodoShape'
    <2>1. Start!Entered(launchTodo)' /\ NoStarts(launchTodo)'
      BY <1>4, <1>5 DEF Start!Entered, NoStarts, Start!Starts, Start!Exits, Start!Key
    <2> QED
      BY <1>1, <1>2, <1>3, <1>5, <1>6, <1>8, <2>1 DEF TodoShape
  <1>10. Exported' /\ Prompted'
    BY <1>1, <1>5, <1>6, <1>8 DEF LaunchInv, Exported, Unkeyed, Start!Keyed, Start!Shells,
                                  Start!Key, Prompted
  <1>11. Found'
    BY <1>1, <1>5 DEF LaunchInv, Found, InReal
  <1>12. OnScreen'
    BY <1>1, <1>3, <1>5, <1>8 DEF LaunchInv, OnScreen
  <1>13. RowNames'
    <2>1. PassesIds' = PassesIds
      BY <1>1 DEF PassesIds, Start!GivesId, Start!Gives, Start!Shells, Start!Starts,
                  Start!MayExit, Start!Exits, Start!Key, Start!Placeholder
    <2> QED
      BY <1>1, <1>3, <1>5, <1>8, <2>1 DEF LaunchInv, RowNames
  <1>14. NothingCaptured'
    BY <1>1, <1>4, <1>5 DEF LaunchInv, NothingCaptured, Start!Captures, NoCapture
  <1>15. LeftCaptured'
    <2>1. Start!ByLeaving' = Start!ByLeaving
      BY <1>1 DEF Start!ByLeaving, Start!AsksLeaving, Start!Exits, Start!Key, Start!Capture
    <2> QED
      BY <1>1, <1>3, <1>8, <2>1 DEF LaunchInv, LeftCaptured
  <1>16. LaunchCaptured'
    <2>1. AsksAtLaunch' = AsksAtLaunch
      BY <1>1 DEF AsksAtLaunch, Start!Asks, Start!Shells, Start!Starts, Start!Capture
    <2> QED
      BY <1>1, <1>3, <1>5, <1>8, <2>1 DEF LaunchInv, LaunchCaptured
  <1>17. Continuing'
    BY <1>6 DEF Continuing
  <1> QED
    BY <1>7, <1>9, <1>10, <1>11, <1>12, <1>13, <1>14, <1>15, <1>16, <1>17 DEF LaunchInv

(* The end of a function: its state and its id are written.                *)
LEMMA FinishStep ==
    ASSUME LaunchInv, Start!Finish
    PROVE  LaunchInv'
  <1>1. /\ op.running /\ op.kind # "reload" /\ launchTodo = <<>>
        /\ op' = [op EXCEPT !.running = FALSE]
        /\ IF op.kind \in Start!Launches THEN state' = "active" /\ sid' = record
           ELSE state' = (IF op.kind = "suspend" THEN "suspended" ELSE state) /\ sid' = sid
        /\ UNCHANGED <<config, persona, creds, captured, profile, launchPane, launchScreen, talks,
                       issued, launchTodo, record, last>>
    BY DEF Start!Finish
  <1>2. LaunchType /\ TodoShape
    BY DEF LaunchInv
  <1>3. /\ PaneRecord' = PaneRecord /\ PaneStep' = PaneStep /\ Start!Launches' = Start!Launches
        /\ Start!Launches = {"spawn", "recover", "resume", "relaunch"}
        /\ Start!Running' = Start!Running /\ TypedStart' = TypedStart
    BY <1>1 DEF PaneRecord, PaneLine, PaneStep, Start!Launches, Start!Running, TypedStart
  <1>4. op' \in [kind : Start!Launches \cup {"none", "suspend", "reload", "button", "kill", "fail"},
                 running : BOOLEAN, persona : Nat]
        /\ op'.persona = op.persona /\ op'.kind = op.kind /\ ~op'.running
    BY <1>1, <1>2 DEF LaunchType
  <1>5. LaunchType'
    BY <1>1, <1>2, <1>3, <1>4 DEF LaunchType
  <1>6. /\ ~Leaving' /\ ~Launching' /\ ~TypedStart
        /\ op.kind \in {"spawn", "recover", "resume", "relaunch", "suspend", "button"}
        /\ Launching <=> op.kind \in Start!Launches
        /\ Leaving <=> op.kind = "suspend"
        /\ Leaving => ~Start!Running
    BY <1>1, <1>2, <1>3, <1>4 DEF Leaving, Launching, TodoShape
  <1>7. (Left' => Left) /\ (Start!Running => state' = "active")
    BY <1>1, <1>2, <1>3, <1>6 DEF Left, TodoShape
  <1>8. TodoShape'
    <2>1. Start!Entered(launchTodo)' /\ NoStarts(launchTodo)'
      BY <1>1, NoSteps DEF Start!Entered, NoStarts
    <2> QED
      BY <1>1, <1>2, <1>3, <1>4, <1>6, <1>7, <2>1 DEF TodoShape
  <1>9. Exported' /\ Prompted'
    BY <1>1, <1>3, <1>4, <1>6 DEF LaunchInv, Exported, Unkeyed, Start!Keyed, Start!Shells,
                                  Start!Key, Prompted, Start!UsesProfile
  <1>10. Found'
    BY <1>1, <1>3, <1>6 DEF LaunchInv, Found, InReal
  <1>11. OnScreen'
    BY <1>1, <1>3, <1>6, <1>7 DEF LaunchInv, OnScreen
  <1>12. RowNames'
    <2>1. PassesIds' = PassesIds
      BY <1>1 DEF PassesIds, Start!GivesId, Start!Gives, Start!Shells, Start!Starts,
                  Start!MayExit, Start!Exits, Start!Key, Start!Placeholder
    <2>2. Left' => ~Launching
      BY <1>1, <1>3, <1>6, <1>7 DEF Left, Leaving, Launching
    <2>3. ASSUME PassesIds, Start!Running PROVE sid' = launchPane.runs
      <3>1. CASE Launching
        BY <1>1, <1>6, <2>3, <3>1 DEF LaunchInv, RowNames
      <3>2. CASE ~Launching
        BY <1>1, <1>2, <1>6, <2>3, <3>2 DEF LaunchInv, RowNames, TodoShape
      <3> QED
        BY <3>1, <3>2
    <2> QED
      BY <1>1, <1>3, <1>6, <1>7, <2>1, <2>2, <2>3 DEF LaunchInv, RowNames
  <1>13. NothingCaptured'
    BY <1>1 DEF LaunchInv, NothingCaptured, Start!Captures, NoCapture
  <1>14. LeftCaptured'
    <2>1. Start!ByLeaving' = Start!ByLeaving
      BY <1>1 DEF Start!ByLeaving, Start!AsksLeaving, Start!Exits, Start!Key, Start!Capture
    <2>2. Left' => ~Launching
      BY <1>1, <1>3, <1>6, <1>7 DEF Left, Leaving, Launching
    <2> QED
      BY <1>1, <1>6, <1>7, <2>1, <2>2, NoSteps DEF LaunchInv, LeftCaptured
  <1>15. LaunchCaptured'
    <2>1. AsksAtLaunch' = AsksAtLaunch
      BY <1>1 DEF AsksAtLaunch, Start!Asks, Start!Shells, Start!Starts, Start!Capture
    <2> QED
      BY <1>1, <1>3, <1>6, <1>7, <2>1, NoSteps DEF LaunchInv, LaunchCaptured
  <1>16. Continuing'
    <2>1. Start!Known' = Start!Known
      BY <1>1, <1>4, KnownSame
    <2>2. (\A i \in DOMAIN launchTodo :
               ~Start!Starts(launchTodo[i]) /\ ~Start!MayExit(launchTodo[i]))'
      BY <1>1, DOMAIN <<>> = {}
    <2> QED
      BY <1>1, <1>3, <1>4, <2>1, <2>2, NoSteps DEF LaunchInv, Continuing
  <1> QED
    BY <1>5, <1>8, <1>9, <1>10, <1>11, <1>12, <1>13, <1>14, <1>15, <1>16 DEF LaunchInv

(* Each step of a hook that is typed keeps all of it.                      *)
LEMMA DispatchStepKeeps ==
    ASSUME LaunchInv, Start!DispatchStep
    PROVE  LaunchInv'
  <1>1. /\ LaunchType /\ TodoShape /\ Exported /\ Prompted /\ Found /\ OnScreen /\ RowNames
        /\ NothingCaptured /\ LeftCaptured /\ LaunchCaptured /\ Continuing
    BY DEF LaunchInv
  <1>2. LaunchType' /\ TodoShape' /\ Exported' /\ Prompted' /\ Found' /\ OnScreen'
    BY <1>1, DispatchType, DispatchShape, DispatchNames, DispatchScreen
  <1>3. RowNames' /\ NothingCaptured' /\ LeftCaptured' /\ LaunchCaptured' /\ Continuing'
    BY <1>1, DispatchRow, DispatchLeft, DispatchCaptured, DispatchContinues
  <1> QED
    BY <1>2, <1>3 DEF LaunchInv

(* Edits of the persona and of the account, between any two steps.         *)
LEMMA ChangesAtRest ==
    ASSUME LaunchInv, Start!EditPersona \/ Start!ChangeAccount \/ UNCHANGED launchVars
    PROVE  LaunchInv'
  <1>1. /\ UNCHANGED <<config, state, sid, captured, profile, launchPane, launchScreen, talks,
                       issued, op, launchTodo, record, last>>
        /\ persona' \in {persona, persona + 1} /\ creds' \in {creds, TRUE, FALSE}
    BY DEF Start!EditPersona, Start!ChangeAccount, Start!RegisterAccount, Start!RemoveAccount,
           launchVars
  <1>2. PaneRecord' = PaneRecord /\ PaneStep' = PaneStep /\ Start!Launches' = Start!Launches
    BY <1>1 DEF PaneRecord, PaneLine, PaneStep, Start!Launches
  <1>3. persona' \in Nat /\ creds' \in BOOLEAN /\ op.persona <= persona'
    <2>1. op \in [kind : Start!Launches \cup {"none", "suspend", "reload", "button", "kill", "fail"},
                   running : BOOLEAN, persona : Nat] /\ persona \in Nat /\ creds \in BOOLEAN
          /\ op.persona <= persona
      BY DEF LaunchInv, LaunchType
    <2>2. op.persona \in Nat
      BY <2>1
    <2>3. persona' \in Nat /\ op.persona <= persona'
      <3>1. persona' = persona \/ persona' = persona + 1
        BY <1>1
      <3> QED
        BY <2>1, <2>2, <3>1
    <2>4. creds' \in BOOLEAN
      BY <1>1, <2>1
    <2> QED
      BY <2>3, <2>4
  <1>4. LaunchType'
    BY <1>1, <1>2, <1>3 DEF LaunchInv, LaunchType
  <1> QED
    BY <1>1, <1>4, LaunchUnmoved

(* A new agent.                                                            *)
LEMMA LaunchStarts == ASSUME Start!Init PROVE LaunchInv
  <1>1. /\ config \in Config /\ persona = 0 /\ creds = TRUE /\ state = "void" /\ sid = None
        /\ captured = None /\ profile = -1 /\ launchPane = Start!Gone /\ launchScreen = None
        /\ talks = {} /\ issued = 0 /\ launchTodo = <<>> /\ record = None /\ last = None
        /\ op = [kind |-> "none", running |-> FALSE, persona |-> 0]
    BY DEF Start!Init
  <1>2. /\ ~op.running /\ op.kind = "none" /\ op.persona = 0
        /\ op \in [kind : Start!Launches \cup {"none", "suspend", "reload", "button", "kill", "fail"},
                   running : BOOLEAN, persona : Nat]
        /\ op.kind \notin Start!Launches
    BY <1>1 DEF Start!Launches
  <1>3. LaunchType
    BY <1>1, <1>2, PanesOfLaunch, NoSteps DEF LaunchType, IdOrNone
  <1>4. ~Start!Running /\ ~TypedStart /\ ~Launching /\ ~Leaving /\ ~Left
        /\ launchPane.prompt = None /\ launchPane.home = "real"
    BY <1>1, <1>2, PanesOfLaunch DEF Start!Running, TypedStart, Launching, Leaving, Left
  <1>5. TodoShape
    <2>1. Start!Entered(launchTodo) /\ NoStarts(launchTodo)
      BY <1>1, NoSteps DEF Start!Entered, NoStarts
    <2> QED
      BY <1>1, <1>2, <1>4, <2>1 DEF TodoShape
  <1>6. Exported /\ Prompted /\ Found /\ OnScreen /\ LeftCaptured
    BY <1>1, <1>2, <1>4 DEF Exported, Prompted, Found, OnScreen, LeftCaptured
  <1>7. RowNames /\ LaunchCaptured /\ Continuing
    BY <1>1, <1>2, <1>4 DEF RowNames, LaunchCaptured, Continuing
  <1>8. NothingCaptured
    BY <1>1, NoSteps DEF NothingCaptured, NoCapture
  <1> QED
    BY <1>3, <1>5, <1>6, <1>7, <1>8 DEF LaunchInv

(* A launch starts an agent with its own past, its name and its persona    *)
(* (StartedAsItself), for any engine, hooks and account, whatever its      *)
(* account and its persona do meanwhile, and however often it is           *)
(* suspended, reloaded, killed or fails (lifecycle.ts:51-500).             *)
THEOREM LaunchesAsItself == ServerSpec => []StartedAsItself
  <1> DEFINE Inv == part = "launch" => LaunchInv
  <1>1. ServerInit => Inv
    BY LaunchStarts DEF ServerInit
  <1>2. Inv /\ [ServerNext]_serverVars => Inv'
    <2> SUFFICES ASSUME part = "launch", LaunchInv, Start!Next \/ UNCHANGED launchVars
                 PROVE  LaunchInv'
      BY DEF ServerNext, serverVars
    <2>1. CASE UNCHANGED launchVars
      BY <2>1, ChangesAtRest
    <2>2. CASE Start!Next
      BY <2>2, SpawnAgentStep, ResumeAgentStep, ExitAgentStep, RelaunchStep, ButtonStep,
         KillAgentStep, FailStep, DispatchStepKeeps, FinishStep, ChangesAtRest DEF Start!Next
    <2> QED
      BY <2>1, <2>2
  <1>3. LaunchInv => Start!KnownConversationContinues
    BY DEF LaunchInv, Continuing, Start!KnownConversationContinues
  <1>4. LaunchInv => Start!AgentKnowsItself
    BY DEF LaunchInv, Exported, Unkeyed, Prompted, Start!AgentKnowsItself
  <1>5. Inv => StartedAsItself
    BY <1>3, <1>4 DEF StartedAsItself, Start!StartedAsItself
  <1> QED
    BY <1>1, <1>2, <1>5, PTL DEF ServerSpec

-----------------------------------------------------------------------------
(* The threads                                                             *)

(* The statements a handler is made of.                                    *)
Enqueue(a) == Thread!EnqueueMessage(None, a)
EnqueueFrom(b, a) == Thread!EnqueueMessage(b, a)
LinkRow == Thread!LinkDashboardMessageToQueue
AddTo(a) == Thread!AddDashboardMessage(Thread!Inbox(a), "to_agent")
AddFrom(a) == Thread!AddDashboardMessage(Thread!Inbox(a), "from_agent")
AddOutbound(a) == Thread!AddDashboardMessage(Thread!Outbound(a), "from_agent")
AddNotice(a) == Thread!AddNotice(Thread!Inbox(a))

(* What is left, t, of a handler, by what it owes: the row of its entry,   *)
OwesRow(t, a) == \/ \E b \in Agent : t = <<AddFrom(b), LinkRow, AddTo(a), LinkRow>>
                 \/ t = <<AddTo(a), LinkRow>>
OwesLinkAndRow(t, a) == t = <<LinkRow, AddTo(a), LinkRow>>
(* the entry of its row,                                                   *)
OwesEntry(t, a) == t = <<Enqueue(a), LinkRow>>
(* the link of both,                                                       *)
OwesLink(t) == t = <<LinkRow>>
(* the notice, and before it the withdrawal of row n and the end of its    *)
(* entry q,                                                                *)
OwesNotice(t, a) == t = <<AddNotice(a), Enqueue(a), LinkRow>>
OwesWithdrawal(t, n, a) == t = <<Thread!WithdrawMessage(n), AddNotice(a), Enqueue(a), LinkRow>>
OwesCancel(t, q, n, a) == t = <<Thread!CancelPendingMessage(q), Thread!WithdrawMessage(n),
                                AddNotice(a), Enqueue(a), LinkRow>>
(* the row of a message that Telegram took, the report of a failure, or    *)
(* all of it.                                                              *)
OwesOutbound(t, a) == t = <<AddOutbound(a)>>
OwesReport(t, a) == t = <<Thread!EnqueueReport(a)>>
Begins(t, a) == \/ \E b \in Agent :
                      t = <<EnqueueFrom(b, a), AddFrom(b), LinkRow, AddTo(a), LinkRow>>
                \/ t = <<AddTo(a), Enqueue(a), LinkRow>>
                \/ t = <<AddFrom(a)>>

(* The row that was last added is not linked yet; or the entry has no row. *)
Fresh(t) == OwesLink(t) \/ \E a \in Agent : OwesEntry(t, a)
Rowless(t) == \E a \in Agent : OwesRow(t, a) \/ OwesLinkAndRow(t, a)

(* The last row, and the last entry.                                       *)
NewRow == Len(rows)
NewEntry == Len(queue)

AnyRow == [thread : Thread!ThreadName, direction : {"to_agent", "from_agent"}, queue : Nat,
           withdrawn : BOOLEAN, notice : BOOLEAN]

ThreadType ==
    /\ rows \in Seq(AnyRow) /\ queue \in Seq(Thread!Entry) /\ accepted \in [Agent -> Nat]
    /\ attempts \subseteq DOMAIN queue /\ threadsHeld \subseteq DOMAIN queue \ attempts
    /\ \A n \in DOMAIN rows :
          /\ rows[n].queue \in 0 .. NewEntry
          /\ rows[n].direction = "to_agent" => \E a \in Agent : rows[n].thread = Thread!Inbox(a)
    /\ \A q \in threadsHeld : queue[q].status = "failed"

(* The last row was added to the thread of a, and is not linked yet.       *)
LastRowIsOf(a) == /\ rows # <<>> /\ rows[NewRow].thread = Thread!Inbox(a)
                  /\ rows[NewRow].direction = "to_agent" /\ rows[NewRow].queue = 0
                  /\ ~rows[NewRow].withdrawn
LastEntryIsOf(a) == queue # <<>> /\ queue[NewEntry].to = a

(* What a handler that has begun has done so far.                          *)
TodoIs ==
    \/ threadsTodo = <<>>
    \/ \E a \in Agent :
          \/ Begins(threadsTodo, a) \/ OwesNotice(threadsTodo, a) \/ OwesOutbound(threadsTodo, a)
          \/ OwesReport(threadsTodo, a)
          \/ OwesRow(threadsTodo, a) /\ LastEntryIsOf(a)
          \/ /\ OwesLinkAndRow(threadsTodo, a) /\ LastEntryIsOf(a)
             /\ rows # <<>> /\ ~rows[NewRow].withdrawn /\ rows[NewRow].direction = "from_agent"
          \/ OwesEntry(threadsTodo, a) /\ LastRowIsOf(a)
          \/ OwesLink(threadsTodo) /\ LastRowIsOf(a) /\ LastEntryIsOf(a)
          \/ \E n \in DOMAIN rows :
                /\ rows[n].thread = Thread!Inbox(a) /\ rows[n].direction = "to_agent"
                /\ \/ OwesWithdrawal(threadsTodo, n, a)
                   \/ OwesCancel(threadsTodo, rows[n].queue, n, a) /\ rows[n].queue # 0

(* Every entry but a report has its row, or the handler owes it.           *)
HasRow(q) == \E n \in DOMAIN rows : /\ rows[n].queue = q /\ rows[n].direction = "to_agent"
                                    /\ rows[n].thread = Thread!Inbox(queue[q].to)
EntriesShown ==
    \A q \in DOMAIN queue : ~queue[q].report =>
        HasRow(q) \/ (q = NewEntry /\ (OwesLink(threadsTodo) \/ Rowless(threadsTodo)))

(* Every row for an agent has its entry, or the handler owes it.           *)
RowsLinked ==
    \A n \in DOMAIN rows : rows[n].direction = "to_agent" =>
        rows[n].queue # 0 \/ (n = NewRow /\ Fresh(threadsTodo))

(* The entry of a withdrawn row is settled, and its agent is told, or will *)
(* be.                                                                     *)
ThreadSettled(n) == rows[n].queue # 0 /\ queue[rows[n].queue].status # "pending"
ThreadTold(n) == \E m \in DOMAIN rows : /\ n < m /\ rows[m].notice /\ rows[m].thread = rows[n].thread
                                  /\ rows[m].queue > rows[n].queue
WillBeTold(n) ==
    \/ \E a \in Agent : OwesNotice(threadsTodo, a) /\ rows[n].thread = Thread!Inbox(a)
    \/ /\ Fresh(threadsTodo) /\ n < NewRow
       /\ rows[NewRow].notice /\ rows[NewRow].thread = rows[n].thread
       /\ OwesLink(threadsTodo) => rows[n].queue < NewEntry
WithdrawnAreTold ==
    /\ \A n \in DOMAIN rows : rows[n].withdrawn => ThreadSettled(n) /\ (ThreadTold(n) \/ WillBeTold(n))
    /\ \A n \in DOMAIN rows, a \in Agent : OwesWithdrawal(threadsTodo, n, a) => ThreadSettled(n)

(* What Telegram took has a row, or the handler owes it.                   *)
Posted(a) == {n \in DOMAIN rows : rows[n].thread = Thread!Outbound(a)}
AcceptedHaveRows ==
    \A a \in Agent :
        accepted[a] = Cardinality(Posted(a)) + (IF OwesOutbound(threadsTodo, a) THEN 1 ELSE 0)

ThreadsKept == EntriesShown /\ RowsLinked /\ WithdrawnAreTold /\ AcceptedHaveRows

(* A client has each row that was there when it began, or one of the same  *)
(* message is still to come; no handler changes these rows any more.       *)
IsMessage(whole, m, n) == IF whole THEN Thread!SameMessage(m, n) ELSE m = n
Has(whole, ids, n) == \E m \in ids : IsMessage(whole, m, n)
IsAhead(walk) ==
    /\ walk = [of |-> walk.of, merged |-> walk.merged, before |-> walk.before,
               until |-> walk.until, got |-> walk.got, more |-> walk.more]
    /\ walk.until \in 0 .. NewRow
    /\ \A n \in walk.got : n \in 1 .. walk.until
    /\ walk.more => walk.before \in 1 .. walk.until
    /\ \A n \in 1 .. walk.until : rows[n].thread \in walk.of =>
          \/ Has(walk.merged, walk.got, n)
          \/ walk.more /\ Has(walk.merged, Thread!Older(walk.of, walk.before), n)
ReaderIsAhead ==
    reader # Thread!NoWalk =>
        /\ IsAhead(reader)
        /\ Fresh(threadsTodo) \/ (\E a \in Agent : OwesLinkAndRow(threadsTodo, a))
              => reader.until < NewRow

ThreadsInv == /\ ThreadType /\ TodoIs /\ ReaderIsAhead
              /\ ~threadsSpoiled => ThreadsKept

(* A set of numbers has a least.                                           *)
LEMMA LeastOf ==
    ASSUME NEW S \in SUBSET Nat, S # {}
    PROVE  \E n \in S : \A m \in S : n <= m
  <1>1. PICK n \in S : \A m \in S : ~ (<<m, n>> \in OpToRel(<, Nat))
    BY NatLessThanWellFounded, WFMin
  <1>2. \A m \in S : ~(m < n)
    BY <1>1 DEF OpToRel
  <1> QED
    BY <1>2

(* The newest ids are all there are if these fit into a page; else there   *)
(* are some, and what is not among them is older than all of them.         *)
LEMMA PageOf ==
    ASSUME NEW N \in Nat, NEW S, \A i \in S : i \in 1 .. N,
           NEW latest, latest = Thread!Newest(PageSize, S)
    PROVE  /\ latest \subseteq S
           /\ Thread!Cardinality(S) > PageSize => S # {}
           /\ ~(Thread!Cardinality(S) > PageSize) => latest = S
           /\ S # {} => latest # {} /\ Thread!Min(latest) \in latest
           /\ \A s \in S : s \in latest \/ s < Thread!Min(latest)
  <1>1. PageSize \in Nat /\ PageSize > 0
    BY ServerAssumption DEF Thread!ThreadsAssumption
  <1> DEFINE After(i) == {j \in S : j > i}
  <1>2. latest = {i \in S : Cardinality(After(i)) < PageSize}
    BY DEF Thread!Newest, Thread!Cardinality, Cardinality
  <1>3. IsFiniteSet(S) /\ Cardinality(S) \in Nat
    <2>1. S \in SUBSET Nat /\ \A i \in S : i <= N
      OBVIOUS
    <2> QED
      BY <2>1, FS_BoundedSetOfNaturals, FS_CardinalityType
  <1>4. ASSUME NEW i PROVE IsFiniteSet(After(i)) /\ Cardinality(After(i)) \in Nat
    <2>1. After(i) \in SUBSET S
      OBVIOUS
    <2> HIDE DEF After
    <2> QED
      BY <1>3, <2>1, FS_Subset, FS_CardinalityType
  <1>5. Thread!Cardinality(S) = Cardinality(S)
    BY DEF Thread!Cardinality, Cardinality
  <1>6. Cardinality(S) > PageSize => S # {}
    BY <1>1, FS_EmptySet
  <1>7. ASSUME ~(Cardinality(S) > PageSize) PROVE latest = S
    <2> SUFFICES ASSUME NEW i \in S PROVE Cardinality(After(i)) < PageSize
      BY <1>2
    <2>1. After(i) \in SUBSET S /\ After(i) # S
      OBVIOUS
    <2> HIDE DEF After
    <2>2. Cardinality(After(i)) <= Cardinality(S) /\ Cardinality(After(i)) # Cardinality(S)
      BY <1>3, <2>1, FS_Subset
    <2> QED
      BY <1>1, <1>3, <1>4, <1>7, <2>2
  <1>8. ASSUME S # {} PROVE latest # {}
    <2> DEFINE D == {N - i : i \in S}
    <2>1. D \in SUBSET Nat /\ D # {} /\ (\A i \in S : N - i \in D)
          /\ (\A d \in D : \E i \in S : d = N - i)
      BY <1>8
    <2> HIDE DEF D
    <2>2. PICK d \in D : \A m \in D : d <= m
      BY <2>1, LeastOf
    <2>3. PICK x \in S : d = N - x
      BY <2>1
    <2>4. \A j \in S : ~(j > x)
      BY <2>1, <2>2, <2>3
    <2>5. After(x) = {}
      BY <2>4
    <2> HIDE DEF After
    <2> QED
      BY <1>1, <1>2, <2>5, FS_EmptySet
  <1>9. ASSUME latest # {}
        PROVE  Thread!Min(latest) \in latest /\ \A i \in latest : Thread!Min(latest) <= i
    <2>1. latest \in SUBSET Nat
      BY <1>2
    <2>2. PICK n \in latest : \A m \in latest : n <= m
      BY <1>9, <2>1, LeastOf
    <2> HIDE DEF After
    <2> QED
      BY <2>2 DEF Thread!Min
  <1>10. ASSUME NEW s \in S, s \notin latest PROVE s < Thread!Min(latest)
    <2>1. latest # {}
      BY <1>8
    <2>2. Thread!Min(latest) \in latest
      BY <1>9, <2>1
    <2> DEFINE m == Thread!Min(latest)
    <2>3. m \in S /\ Cardinality(After(m)) < PageSize
      BY <1>2, <2>2
    <2>4. ~(Cardinality(After(s)) < PageSize)
      BY <1>2, <1>10
    <2>5. ASSUME m <= s PROVE FALSE
      <3>1. After(s) \in SUBSET After(m)
        BY <2>3, <2>5
      <3> HIDE DEF After
      <3>2. Cardinality(After(s)) <= Cardinality(After(m))
        BY <1>4, <3>1, FS_Subset
      <3> QED
        BY <1>1, <1>4, <2>3, <2>4, <3>2
    <2> HIDE DEF m
    <2>6. s < m
      BY <2>3, <2>5
    <2> QED
      BY <2>6 DEF m
  <1> QED
    BY <1>2, <1>5, <1>6, <1>7, <1>8, <1>9, <1>10

(* A page takes a client ahead that has or will find each row, provided    *)
(* that the page is the newest of rows that have one for each message, and *)
(* that there are more to come unless it was the last.                     *)
LEMMA ReaderPageStep ==
    ASSUME ThreadType, UNCHANGED rows, NEW walk,
           walk = [of |-> walk.of, merged |-> walk.merged, before |-> walk.before,
                   until |-> walk.until, got |-> walk.got, more |-> walk.more],
           walk.until \in 0 .. NewRow, \A n \in walk.got : n \in 1 .. walk.until,
           NEW ids, ids = Thread!Older(walk.of, walk.before), \A n \in ids : n \in 1 .. walk.until,
           \A n \in 1 .. walk.until : rows[n].thread \in walk.of =>
               Has(walk.merged, walk.got, n) \/ Has(walk.merged, ids, n),
           NEW S \in SUBSET ids, \A n \in ids : Has(walk.merged, S, n),
           NEW more, more => S # {}, ~more => Thread!Newest(PageSize, S) = S,
           reader' = Thread!Ahead(walk, Thread!Newest(PageSize, S), more)
    PROVE  IsAhead(reader)'
  <1> DEFINE latest == Thread!Newest(PageSize, S)
             b == Thread!Min(latest)
  <1>1. walk.until \in Nat /\ \A i \in S : i \in 1 .. walk.until
    BY DEF ThreadType, NewRow
  <1>2. /\ latest \subseteq S
        /\ S # {} => latest # {} /\ b \in latest
        /\ \A s \in S : s \in latest \/ s < b
    BY <1>1, PageOf
  <1>3. reader' = [of |-> walk.of, merged |-> walk.merged,
                   before |-> IF latest = {} THEN walk.before ELSE b, until |-> walk.until,
                   got |-> walk.got \cup latest, more |-> more]
    BY DEF Thread!Ahead
  <1>4. (~more => latest = S)
    OBVIOUS
  <1> HIDE DEF latest, b
  <1>5. /\ reader'.of = walk.of /\ reader'.merged = walk.merged /\ reader'.until = walk.until
        /\ reader'.got = walk.got \cup latest /\ (reader'.more <=> more)
        /\ latest # {} => reader'.before = b
    BY <1>3
  <1>6. reader' = [of |-> reader'.of, merged |-> reader'.merged, before |-> reader'.before,
                   until |-> reader'.until, got |-> reader'.got, more |-> reader'.more]
    BY <1>3
  <1>7. NewRow' = NewRow
    BY DEF NewRow
  <1>8. \A n \in reader'.got : n \in 1 .. reader'.until
    BY <1>1, <1>2, <1>5
  <1>9. more => reader'.before \in 1 .. reader'.until
    BY <1>1, <1>2, <1>5
  <1>10. ASSUME NEW n \in 1 .. walk.until, rows[n].thread \in walk.of
         PROVE  \/ Has(walk.merged, walk.got \cup latest, n)'
                \/ more /\ Has(walk.merged, Thread!Older(walk.of, b), n)'
    <2>1. CASE Has(walk.merged, walk.got, n)
      BY <2>1 DEF Has, IsMessage, Thread!SameMessage
    <2>2. CASE ~Has(walk.merged, walk.got, n)
      <3>1. PICK m \in ids : IsMessage(walk.merged, m, n)
        BY <1>10, <2>2 DEF Has
      <3>2. PICK s \in S : IsMessage(walk.merged, s, m)
        BY DEF Has
      <3>3. IsMessage(walk.merged, s, n)
        BY <3>1, <3>2 DEF IsMessage, Thread!SameMessage
      <3>4. IsMessage(walk.merged, s, n)'
        BY <3>3 DEF IsMessage, Thread!SameMessage
      <3>5. CASE s \in latest
        BY <3>4, <3>5 DEF Has
      <3>6. CASE s \notin latest
        <4>1. more /\ s < b
          BY <1>2, <1>4, <3>6
        <4>2. s \in DOMAIN rows /\ rows[s].thread \in walk.of
          BY DEF Thread!Older
        <4>3. s \in Thread!Older(walk.of, b)'
          BY <4>1, <4>2 DEF Thread!Older
        <4> QED
          BY <3>4, <4>1, <4>3 DEF Has
      <3> QED
        BY <3>5, <3>6
    <2> QED
      BY <2>1, <2>2
  <1>11. more => latest # {}
    BY <1>2
  <1> QED
    BY <1>5, <1>6, <1>7, <1>8, <1>9, <1>10, <1>11 DEF IsAhead

(* A route that reads takes such a client ahead, ...                       *)
LEMMA ReadStep ==
    ASSUME ThreadType, NEW walk,
           walk = [of |-> walk.of, merged |-> walk.merged, before |-> walk.before,
                   until |-> walk.until, got |-> walk.got, more |-> walk.more],
           walk.until \in 0 .. NewRow, \A n \in walk.got : n \in 1 .. walk.until,
           \A n \in Thread!Older(walk.of, walk.before) : n \in 1 .. walk.until,
           \A n \in 1 .. walk.until : rows[n].thread \in walk.of =>
               \/ Has(walk.merged, walk.got, n)
               \/ Has(walk.merged, Thread!Older(walk.of, walk.before), n),
           Thread!Read(walk)
    PROVE  IsAhead(reader)'
  <1> DEFINE ids == Thread!Older(walk.of, walk.before)
  <1>1. walk.until \in Nat /\ UNCHANGED rows /\ \A n \in ids : n \in 1 .. walk.until
    BY DEF ThreadType, NewRow, Thread!Read
  <1>2. CASE walk.merged
    <2>1. PICK S \in SUBSET ids :
             /\ \A g \in Thread!Logical(ids) : Thread!Cardinality(g \cap S) = 1
             /\ reader' = Thread!FeedPage(walk, S)
      BY <1>2 DEF Thread!Read, Thread!GetMergedMessages
    <2> DEFINE more == Thread!Cardinality(S) > PageSize
    <2>2. ASSUME NEW n \in ids PROVE Has(walk.merged, S, n)
      <3> DEFINE g == {m \in ids : Thread!SameMessage(m, n)}
      <3>1. g \in Thread!Logical(ids)
        BY DEF Thread!Logical
      <3>2. Cardinality(g \cap S) = 1
        BY <2>1, <3>1 DEF Thread!Cardinality, Cardinality
      <3>3. ASSUME g \cap S = {} PROVE FALSE
        <4>1. Cardinality(g \cap S) = 0
          BY <3>3, FS_EmptySet, Zenon
        <4> QED
          BY <3>2, <4>1
      <3> QED
        BY <1>2, <3>3 DEF Has, IsMessage
    <2>3. reader' = Thread!Ahead(walk, Thread!Newest(PageSize, S), more)
      BY <2>1 DEF Thread!FeedPage
    <2>4. \A n \in S : n \in 1 .. walk.until
      BY <1>1
    <2>5. (more => S # {}) /\ (~more => Thread!Newest(PageSize, S) = S)
      BY <1>1, <2>4, PageOf
    <2> HIDE DEF ids, more
    <2> QED
      BY <1>1, <2>2, <2>3, <2>5, ReaderPageStep DEF ids
  <1>3. CASE ~walk.merged
    <2> DEFINE more == Thread!Newest(PageSize, ids) # {}
    <2>1. reader' = Thread!Ahead(walk, Thread!Newest(PageSize, ids), more)
      BY <1>3 DEF Thread!Read, Thread!GetThread
    <2>2. /\ Thread!Newest(PageSize, ids) \subseteq ids
          /\ ids # {} => Thread!Newest(PageSize, ids) # {}
      BY <1>1, PageOf
    <2>3. \A n \in ids : Has(walk.merged, ids, n)
      BY DEF Has, IsMessage, Thread!SameMessage
    <2>4. (more => ids # {}) /\ (~more => Thread!Newest(PageSize, ids) = ids)
      BY <2>2
    <2> HIDE DEF more
    <2>5. ids \in SUBSET ids
      OBVIOUS
    <2> HIDE DEF ids
    <2> QED
      BY <1>1, <2>1, <2>3, <2>4, <2>5, ReaderPageStep DEF ids
  <1> QED
    BY <1>2, <1>3

(* Nothing is left of no handler.                                          *)
LEMMA NothingLeft ==
    ASSUME NEW t, t = <<>>
    PROVE  /\ ~Fresh(t) /\ ~Rowless(t) /\ ~OwesLink(t)
           /\ \A a : ~OwesNotice(t, a) /\ ~OwesLinkAndRow(t, a) /\ ~OwesOutbound(t, a)
           /\ \A n, a : ~OwesWithdrawal(t, n, a)
  BY DEF Fresh, Rowless, OwesLink, OwesNotice, OwesLinkAndRow, OwesOutbound, OwesWithdrawal,
         OwesEntry, OwesRow

(* ... and leaves the rest as it is.                                       *)
LEMMA ReadsStep ==
    ASSUME ThreadsInv, Thread!ReadFirst \/ Thread!ReadOlder
    PROVE  ThreadsInv'
  <1>1. NewRow \in Nat /\ DOMAIN rows = 1 .. NewRow
    BY DEF ThreadsInv, ThreadType, NewRow
  <1>2. PICK walk : /\ Thread!Read(walk)
                    /\ \/ \E threads1, merged1 :
                             walk = [Thread!NoWalk EXCEPT !.of = threads1, !.merged = merged1,
                                                          !.until = NewRow]
                       \/ walk = reader /\ reader # Thread!NoWalk /\ reader.more
    <2>1. CASE Thread!ReadFirst
      <3>1. PICK threads1 \in SUBSET Thread!ThreadName, merged1 \in BOOLEAN :
               Thread!Read([Thread!NoWalk EXCEPT !.of = threads1, !.merged = merged1,
                                                 !.until = Len(rows)])
        BY <2>1 DEF Thread!ReadFirst
      <3> QED
        BY <3>1 DEF NewRow, Thread!NoWalk
    <2>2. CASE Thread!ReadOlder
      BY <2>2 DEF Thread!ReadOlder
    <2> QED
      BY <2>1, <2>2
  <1>3. UNCHANGED <<rows, queue, threadsTodo, attempts, accepted, threadsHeld, threadsSpoiled>>
        /\ threadsTodo = <<>>
    BY <1>2 DEF Thread!Read, Thread!Quiet
  <1>4. IsAhead(reader)'
    <2>1. CASE walk = reader /\ reader # Thread!NoWalk /\ reader.more
      <3>1. IsAhead(walk) /\ walk.more
        BY <2>1 DEF ThreadsInv, ReaderIsAhead
      <3>2. \A n \in Thread!Older(walk.of, walk.before) : n \in 1 .. walk.until
        BY <1>1, <3>1 DEF Thread!Older, IsAhead
      <3> QED
        BY <1>2, <3>1, <3>2, ReadStep DEF ThreadsInv, IsAhead
    <2>2. CASE \E threads1, merged1 :
                  walk = [Thread!NoWalk EXCEPT !.of = threads1, !.merged = merged1,
                                               !.until = NewRow]
      <3>1. PICK threads1, merged1 :
                  walk = [Thread!NoWalk EXCEPT !.of = threads1, !.merged = merged1,
                                               !.until = NewRow]
        BY <2>2
      <3>2. walk = [of |-> threads1, merged |-> merged1, before |-> 0, until |-> NewRow,
                    got |-> {}, more |-> FALSE]
        BY <3>1 DEF Thread!NoWalk
      <3>3. walk = [of |-> walk.of, merged |-> walk.merged, before |-> walk.before,
                    until |-> walk.until, got |-> walk.got, more |-> walk.more]
        BY <3>2
      <3>4. walk.before = 0 /\ walk.until = NewRow /\ walk.got = {}
        BY <3>2
      <3>5. Thread!Older(walk.of, walk.before)
              = {n \in DOMAIN rows : rows[n].thread \in walk.of}
        BY <3>4 DEF Thread!Older
      <3>6. \A n \in 1 .. walk.until : rows[n].thread \in walk.of =>
               Has(walk.merged, Thread!Older(walk.of, walk.before), n)
        BY <1>1, <3>4, <3>5 DEF Has, IsMessage, Thread!SameMessage
      <3>7. /\ walk.until \in 0 .. NewRow /\ \A n \in walk.got : n \in 1 .. walk.until
            /\ \A n \in Thread!Older(walk.of, walk.before) : n \in 1 .. walk.until
        BY <1>1, <3>4, <3>5
      <3> QED
        BY <1>2, <3>3, <3>6, <3>7, ReadStep DEF ThreadsInv
    <2> QED
      BY <1>2, <2>1, <2>2
  <1>5. ReaderIsAhead'
    BY <1>3, <1>4, NothingLeft DEF ReaderIsAhead
  <1>6. ThreadType' /\ TodoIs'
    BY <1>3 DEF ThreadsInv, ThreadType, TodoIs, NewEntry
  <1>7. ThreadsKept => ThreadsKept'
    BY <1>3 DEF ThreadsKept, EntriesShown, HasRow, RowsLinked, WithdrawnAreTold, ThreadSettled, ThreadTold,
                WillBeTold, AcceptedHaveRows, Posted, NewRow, NewEntry
  <1> QED
    BY <1>3, <1>5, <1>6, <1>7 DEF ThreadsInv

(* What is written one after the other.                                    *)
LEMMA Sequels ==
    ASSUME NEW u, NEW v1, NEW w, NEW x, NEW y
    PROVE  /\ <<>> \o <<v1>> \o <<w, x, y>> = <<v1, w, x, y>>
           /\ <<u>> \o <<v1>> \o <<w, x, y>> = <<u, v1, w, x, y>>
  <1> DEFINE A == {u, v1, w, x, y}
  <1>1. /\ <<>> \in Seq(A) /\ <<u>> \in Seq(A) /\ <<v1>> \in Seq(A) /\ <<w, x, y>> \in Seq(A)
        /\ <<u, v1>> \in Seq(A)
    OBVIOUS
  <1>2. <<>> \o <<v1>> = <<v1>>
    BY <1>1
  <1>3. <<u>> \o <<v1>> = <<u, v1>>
    <2> DEFINE s == <<u>> \o <<v1>>
    <2>1. s \in Seq(A) /\ Len(s) = 2 /\ s[1] = u /\ s[2] = v1
      BY <1>1
    <2> HIDE DEF s
    <2>2. s = [i \in 1 .. 2 |-> s[i]]
      BY <2>1
    <2>3. s = <<u, v1>>
      BY <2>1, <2>2
    <2> QED
      BY <2>3 DEF s
  <1>4. <<v1>> \o <<w, x, y>> = <<v1, w, x, y>>
    <2> DEFINE s == <<v1>> \o <<w, x, y>>
    <2>1. s \in Seq(A) /\ Len(s) = 4 /\ s[1] = v1 /\ s[2] = w /\ s[3] = x /\ s[4] = y
      BY <1>1
    <2> HIDE DEF s
    <2>2. s = [i \in 1 .. 4 |-> s[i]]
      BY <2>1
    <2>3. s = <<v1, w, x, y>>
      BY <2>1, <2>2
    <2> QED
      BY <2>3 DEF s
  <1>5. <<u, v1>> \o <<w, x, y>> = <<u, v1, w, x, y>>
    <2> DEFINE s == <<u, v1>> \o <<w, x, y>>
    <2>1. s \in Seq(A) /\ Len(s) = 5 /\ s[1] = u /\ s[2] = v1 /\ s[3] = w /\ s[4] = x /\ s[5] = y
      BY <1>1
    <2> HIDE DEF s
    <2>2. s = [i \in 1 .. 5 |-> s[i]]
      BY <2>1
    <2>3. s = <<u, v1, w, x, y>>
      BY <2>1, <2>2
    <2> QED
      BY <2>3 DEF s
  <1> QED
    BY <1>2, <1>3, <1>4, <1>5

(* Nothing changes when nothing of the threads does.                       *)
LEMMA SameThreads ==
    ASSUME ThreadsInv, UNCHANGED <<rows, queue, threadsTodo, attempts, accepted, threadsHeld,
                                   threadsSpoiled, reader>>
    PROVE  ThreadsInv'
  <1>1. ReaderIsAhead'
    BY DEF ThreadsInv, ReaderIsAhead, IsAhead, Has, IsMessage, Thread!SameMessage, Thread!Older,
           NewRow
  <1>2. ThreadType' /\ TodoIs'
    BY DEF ThreadsInv, ThreadType, TodoIs, LastRowIsOf, LastEntryIsOf, NewRow, NewEntry
  <1>3. ThreadsKept => ThreadsKept'
    BY DEF ThreadsKept, EntriesShown, HasRow, RowsLinked, WithdrawnAreTold, ThreadSettled, ThreadTold,
           WillBeTold, AcceptedHaveRows, Posted, NewRow, NewEntry
  <1> QED
    BY <1>1, <1>2, <1>3 DEF ThreadsInv

(* The rows of a thread can be counted.                                    *)
LEMMA PostedCount ==
    ASSUME ThreadType, NEW a
    PROVE  IsFiniteSet(Posted(a)) /\ Cardinality(Posted(a)) \in Nat
  <1>1. NewRow \in Nat /\ Posted(a) \in SUBSET Nat /\ \A n \in Posted(a) : n <= NewRow
    BY DEF Posted, ThreadType, NewRow
  <1> QED
    BY <1>1, FS_BoundedSetOfNaturals, FS_CardinalityType

(* The threads of agents and of Telegram are apart.                        *)
LEMMA ThreadsApart ==
    \A a, b : /\ Thread!Inbox(a) # Thread!Outbound(b)
              /\ Thread!Inbox(a) = Thread!Inbox(b) => a = b
              /\ Thread!Outbound(a) = Thread!Outbound(b) => a = b
  BY DEF Thread!Inbox, Thread!Outbound

(* How long the rest of a handler is, and how it begins.                   *)
LEMMA Stages ==
    ASSUME NEW t
    PROVE  /\ \A a : Begins(t, a) =>
                 \/ Len(t) = 5 /\ t[1].do = "enqueue"
                 \/ Len(t) = 3 /\ t[1].do = "add" /\ ~t[1].row.notice
                 \/ Len(t) = 1 /\ t[1].do = "add" /\ t[1].row.thread = Thread!Inbox(a)
           /\ \A a : OwesRow(t, a) => Len(t) \in {2, 4} /\ t[1].do = "add"
           /\ \A a : OwesLinkAndRow(t, a) => Len(t) = 3 /\ t[1].do = "link"
           /\ \A a : OwesEntry(t, a) => Len(t) = 2 /\ t[1].do = "enqueue"
           /\ OwesLink(t) => Len(t) = 1 /\ t[1].do = "link"
           /\ \A a : OwesNotice(t, a) =>
                 /\ Len(t) = 3 /\ t[1].do = "add"
                 /\ t[1].row.notice /\ t[1].row.thread = Thread!Inbox(a)
           /\ \A n, a : OwesWithdrawal(t, n, a) =>
                 /\ Len(t) = 4 /\ t[1].do = "withdraw" /\ t[1].id = n
                 /\ t[2].row.thread = Thread!Inbox(a)
           /\ \A q, n, a : OwesCancel(t, q, n, a) => Len(t) = 5 /\ t[1].do = "cancel"
           /\ \A a : OwesOutbound(t, a) =>
                 Len(t) = 1 /\ t[1].do = "add" /\ t[1].row.thread = Thread!Outbound(a)
           /\ \A a : OwesReport(t, a) => Len(t) = 1 /\ t[1].do = "enqueue"
  <1>1. ASSUME NEW a, NEW n, NEW q
        PROVE  /\ Begins(t, a) =>
                     \/ Len(t) = 5 /\ t[1].do = "enqueue"
                     \/ Len(t) = 3 /\ t[1].do = "add" /\ ~t[1].row.notice
                     \/ Len(t) = 1 /\ t[1].do = "add" /\ t[1].row.thread = Thread!Inbox(a)
               /\ OwesRow(t, a) => Len(t) \in {2, 4} /\ t[1].do = "add"
               /\ OwesLinkAndRow(t, a) => Len(t) = 3 /\ t[1].do = "link"
               /\ OwesEntry(t, a) => Len(t) = 2 /\ t[1].do = "enqueue"
               /\ OwesLink(t) => Len(t) = 1 /\ t[1].do = "link"
               /\ OwesNotice(t, a) =>
                     /\ Len(t) = 3 /\ t[1].do = "add"
                     /\ t[1].row.notice /\ t[1].row.thread = Thread!Inbox(a)
               /\ OwesWithdrawal(t, n, a) =>
                     /\ Len(t) = 4 /\ t[1].do = "withdraw" /\ t[1].id = n
                     /\ t[2].row.thread = Thread!Inbox(a)
               /\ OwesCancel(t, q, n, a) => Len(t) = 5 /\ t[1].do = "cancel"
               /\ OwesOutbound(t, a) =>
                     Len(t) = 1 /\ t[1].do = "add" /\ t[1].row.thread = Thread!Outbound(a)
               /\ OwesReport(t, a) => Len(t) = 1 /\ t[1].do = "enqueue"
    BY DEF Begins, OwesRow, OwesLinkAndRow, OwesEntry, OwesLink, OwesNotice, OwesWithdrawal,
           OwesCancel, OwesOutbound, OwesReport, Thread!EnqueueReport, Enqueue, EnqueueFrom, AddTo, AddFrom, AddOutbound, AddNotice, LinkRow,
           Thread!EnqueueMessage, Thread!LinkDashboardMessageToQueue, Thread!AddDashboardMessage,
           Thread!AddNotice, Thread!WithdrawMessage, Thread!CancelPendingMessage
  <1> QED
    BY <1>1

(* Entries may be settled, but are none the less.                          *)
EntriesSettle ==
    /\ \A i \in DOMAIN queue : queue'[i].to = queue[i].to
    /\ \A i \in DOMAIN queue : queue'[i].report = queue[i].report
    /\ \A i \in DOMAIN queue : queue[i].status # "pending" => queue'[i].status # "pending"
    /\ DOMAIN queue' = DOMAIN queue /\ NewEntry' = NewEntry /\ queue' \in Seq(Thread!Entry)
    /\ attempts' \subseteq DOMAIN queue /\ \A i \in threadsHeld : i \notin attempts'
    /\ \A i \in threadsHeld : queue'[i].status = queue[i].status

LEMMA EntriesAlone == ASSUME ThreadType, UNCHANGED <<queue, attempts>> PROVE EntriesSettle
  BY DEF EntriesSettle, ThreadType, NewEntry

LEMMA SettledStay ==
    ASSUME ThreadType, EntriesSettle, UNCHANGED rows
    PROVE  /\ \A q \in DOMAIN queue : HasRow(q) => HasRow(q)'
           /\ \A n \in DOMAIN rows : ThreadSettled(n) => ThreadSettled(n)'
           /\ \A q \in DOMAIN queue : queue'[q].report = queue[q].report
           /\ DOMAIN queue' = DOMAIN queue /\ NewEntry' = NewEntry
  <1>1. /\ \A q \in DOMAIN queue : queue'[q].to = queue[q].to
        /\ \A q \in DOMAIN queue : queue[q].status # "pending" => queue'[q].status # "pending"
        /\ \A q \in DOMAIN queue : queue'[q].report = queue[q].report
        /\ DOMAIN queue' = DOMAIN queue /\ NewEntry' = NewEntry
    BY Zenon DEF EntriesSettle
  <1>2. ASSUME NEW q \in DOMAIN queue, HasRow(q) PROVE HasRow(q)'
    <2>1. PICK n \in DOMAIN rows : /\ rows[n].queue = q /\ rows[n].direction = "to_agent"
                                   /\ rows[n].thread = Thread!Inbox(queue[q].to)
      BY <1>2 DEF HasRow
    <2>2. rows' = rows /\ queue'[q].to = queue[q].to
      BY <1>1
    <2> QED
      BY <2>1, <2>2 DEF HasRow
  <1>3. ASSUME NEW n \in DOMAIN rows, ThreadSettled(n) PROVE ThreadSettled(n)'
    <2>1. rows[n].queue \in DOMAIN queue
      <3>1. rows[n].queue \in 0 .. NewEntry /\ rows[n].queue # 0 /\ DOMAIN queue = 1 .. NewEntry
        BY <1>3 DEF ThreadSettled, ThreadType, NewEntry
      <3> QED
        BY <3>1
    <2>2. queue'[rows[n].queue].status # "pending" /\ rows[n].queue # 0
      BY <1>1, <1>3, <2>1 DEF ThreadSettled
    <2>3. rows' = rows
      OBVIOUS
    <2> QED
      BY <2>2, <2>3 DEF ThreadSettled
  <1> QED
    BY <1>1, <1>2, <1>3

(* What a handler begins with owes nothing yet; a withdrawal leaves what   *)
(* cancels the entry out when there is none.                               *)
LEMMA HandleStep ==
    ASSUME ThreadsInv, Thread!Quiet, EntriesSettle,
           UNCHANGED <<rows, threadsHeld, threadsSpoiled, reader>>,
           NEW a \in Agent,
           \/ (Begins(threadsTodo', a) \/ OwesReport(threadsTodo', a)) /\ UNCHANGED accepted
           \/ /\ OwesOutbound(threadsTodo', a)
              /\ accepted' = [accepted EXCEPT ![a] = @ + 1]
           \/ \E n \in DOMAIN rows :
                 /\ rows[n].thread = Thread!Inbox(a) /\ rows[n].direction = "to_agent"
                 /\ \/ OwesWithdrawal(threadsTodo', n, a) /\ rows[n].queue = 0
                    \/ OwesCancel(threadsTodo', rows[n].queue, n, a) /\ rows[n].queue # 0
                 /\ UNCHANGED accepted
    PROVE  ThreadsInv'
  <1>1. threadsTodo = <<>>
    BY DEF Thread!Quiet
  <1>2. ~Fresh(threadsTodo') /\ ~Rowless(threadsTodo') /\ ~OwesLink(threadsTodo')
        /\ \A b : ~OwesNotice(threadsTodo', b) /\ ~OwesLinkAndRow(threadsTodo', b)
    <2>1. \/ Begins(threadsTodo', a) \/ OwesOutbound(threadsTodo', a)
          \/ OwesReport(threadsTodo', a)
          \/ \E n, q : OwesWithdrawal(threadsTodo', n, a) \/ OwesCancel(threadsTodo', q, n, a)
      OBVIOUS
    <2> DEFINE t == threadsTodo'
    <2>2. \/ Len(t) = 5 /\ t[1].do \in {"enqueue", "cancel"}
          \/ Len(t) = 4 /\ t[1].do = "withdraw"
          \/ Len(t) = 3 /\ t[1].do = "add" /\ ~t[1].row.notice
          \/ Len(t) = 1 /\ t[1].do \in {"add", "enqueue"}
      BY <2>1, Stages
    <2> HIDE DEF t
    <2>3. /\ ~OwesLink(t)
          /\ \A b : /\ ~OwesEntry(t, b) /\ ~OwesNotice(t, b) /\ ~OwesRow(t, b)
                    /\ ~OwesLinkAndRow(t, b)
      BY <2>2, Stages
    <2> QED
      BY <2>3 DEF Fresh, Rowless, t
  <1>3. TodoIs'
    BY DEF TodoIs
  <1>4. ThreadType'
    <2>1. accepted' \in [Agent -> Nat]
      BY DEF ThreadsInv, ThreadType
    <2>2. /\ queue' \in Seq(Thread!Entry) /\ NewEntry' = NewEntry /\ DOMAIN queue' = DOMAIN queue
          /\ attempts' \subseteq DOMAIN queue /\ \A i \in threadsHeld : i \notin attempts'
          /\ \A i \in threadsHeld : queue'[i].status = queue[i].status
      BY DEF EntriesSettle
    <2> QED
      BY <2>1, <2>2 DEF ThreadsInv, ThreadType
  <1>5. ReaderIsAhead'
    BY <1>1, <1>2 DEF ThreadsInv, ReaderIsAhead, IsAhead, Has, IsMessage, Thread!SameMessage,
                Thread!Older, NewRow
  <1>6. ASSUME ThreadsKept PROVE ThreadsKept'
    <2>1. EntriesShown'
      BY <1>1, <1>6, NothingLeft, SettledStay DEF ThreadsKept, EntriesShown, ThreadsInv
    <2>2. RowsLinked /\ \A n \in DOMAIN rows : rows[n].direction = "to_agent" => rows[n].queue # 0
      BY <1>1, <1>6, NothingLeft DEF ThreadsKept, RowsLinked
    <2>3. RowsLinked'
      BY <2>2 DEF RowsLinked
    <2>4. \A n \in DOMAIN rows : rows[n].withdrawn => ThreadSettled(n) /\ ThreadTold(n)
      BY <1>1, <1>6, NothingLeft DEF ThreadsKept, WithdrawnAreTold, WillBeTold
    <2>5. \A n, b : ~OwesWithdrawal(threadsTodo', n, b)
      <3>1. ~ \E n \in DOMAIN rows : OwesWithdrawal(threadsTodo', n, a) /\ rows[n].queue = 0
                                     /\ rows[n].direction = "to_agent"
        BY <2>2
      <3>2. \E n : Begins(threadsTodo', a) \/ OwesOutbound(threadsTodo', a)
                   \/ OwesReport(threadsTodo', a)
                   \/ OwesCancel(threadsTodo', rows[n].queue, n, a)
        BY <3>1
      <3> QED
        BY <3>2, Stages
    <2>6. WithdrawnAreTold'
      <3>1. \A n \in DOMAIN rows : ThreadSettled(n) => ThreadSettled(n)'
        BY SettledStay DEF ThreadsInv
      <3> QED
        BY <2>4, <2>5, <3>1 DEF WithdrawnAreTold, ThreadTold
    <2>7. \A b \in Agent : accepted[b] = Cardinality(Posted(b))
      <3>1. \A b \in Agent : ~OwesOutbound(threadsTodo, b)
        BY <1>1, NothingLeft
      <3>2. accepted \in [Agent -> Nat]
        BY DEF ThreadsInv, ThreadType
      <3>3. ASSUME NEW b \in Agent PROVE accepted[b] = Cardinality(Posted(b))
        <4>1. accepted[b] = Cardinality(Posted(b)) + 0
          BY <1>6, <3>1 DEF ThreadsKept, AcceptedHaveRows
        <4>2. Cardinality(Posted(b)) \in Nat
          BY PostedCount DEF ThreadsInv
        <4> QED
          BY <4>1, <4>2
      <3> QED
        BY <3>3
    <2>8. AcceptedHaveRows'
      <3>1. \A b : Posted(b)' = Posted(b)
        BY DEF Posted
      <3>2. CASE OwesOutbound(threadsTodo', a) /\ accepted' = [accepted EXCEPT ![a] = @ + 1]
        <4>1. \A b \in Agent : OwesOutbound(threadsTodo', b) <=> b = a
          BY <3>2, Stages, ThreadsApart
        <4> QED
          BY <2>7, <3>1, <3>2, <4>1 DEF AcceptedHaveRows, ThreadsInv, ThreadType
      <3>3. CASE ~OwesOutbound(threadsTodo', a)
        <4>1. \A b \in Agent : ~OwesOutbound(threadsTodo', b)
          <5> SUFFICES ASSUME NEW b \in Agent, OwesOutbound(threadsTodo', b) PROVE FALSE
            OBVIOUS
          <5>1. Begins(threadsTodo', a) \/ OwesReport(threadsTodo', a)
                \/ \E n, q : OwesWithdrawal(threadsTodo', n, a) \/ OwesCancel(threadsTodo', q, n, a)
            BY <3>3
          <5> DEFINE t == threadsTodo'
          <5>2. Len(t) = 1 /\ t[1].do = "add" /\ t[1].row.thread = Thread!Outbound(b)
            BY Stages
          <5>3. Len(t) # 1 \/ t[1].row.thread = Thread!Inbox(a) \/ t[1].do = "enqueue"
            BY <5>1, Stages
          <5> HIDE DEF t
          <5> QED
            BY <5>2, <5>3, ThreadsApart
        <4>2. \A b \in Agent : accepted'[b] = Cardinality(Posted(b)) /\ accepted[b] \in Nat
          BY <2>7, <3>3 DEF ThreadsInv, ThreadType
        <4> QED
          BY <3>1, <4>1, <4>2 DEF AcceptedHaveRows
      <3>4. CASE OwesOutbound(threadsTodo', a) /\ ~(accepted' = [accepted EXCEPT ![a] = @ + 1])
        BY <3>4, Stages, ThreadsApart
      <3> QED
        BY <3>2, <3>3, <3>4
    <2> QED
      BY <2>1, <2>3, <2>6, <2>8 DEF ThreadsKept
  <1> QED
    BY <1>3, <1>4, <1>5, <1>6 DEF ThreadsInv

(* The routes that write begin so.                                         *)
LEMMA RoutesStep ==
    ASSUME ThreadsInv, NEW a \in Agent,
           \/ \E p : \/ Thread!DashboardSend(p, a) \/ Thread!TelegramOutbound(p, a)
                     \/ \E b \in Agent : Thread!AgentsSend(b, p, a)
           \/ Thread!DashboardReply(a) \/ Thread!BroadcastLifecycleEvent(a)
           \/ Thread!TelegramAnswers(a)
           \/ \E n \in Thread!Ids : Thread!Withdraw(n)
    PROVE  ThreadsInv'
  <1> USE DEF Thread!Begin
  <1>e. UNCHANGED <<queue, attempts>> => EntriesSettle
    BY EntriesAlone DEF ThreadsInv
  <1>1. ASSUME NEW s, Thread!Handle(s), Begins(s, a) PROVE ThreadsInv'
    BY <1>e, <1>1, HandleStep DEF Thread!Handle
  <1>2. ASSUME NEW p, Thread!DashboardSend(p, a) PROVE ThreadsInv'
    <2>1. Thread!Handle(<<AddTo(a), Enqueue(a), LinkRow>>)
      BY <1>2 DEF Thread!DashboardSend, Thread!EnqueueAndDeliver, AddTo, Enqueue, LinkRow
    <2> QED
      BY <1>1, <2>1 DEF Begins
  <1>3. ASSUME NEW p, NEW b \in Agent, Thread!AgentsSend(b, p, a) PROVE ThreadsInv'
    <2>1. Thread!Handle(<<EnqueueFrom(b, a), AddFrom(b), LinkRow, AddTo(a), LinkRow>>)
      BY <1>3 DEF Thread!AgentsSend, AddTo, AddFrom, EnqueueFrom, LinkRow
    <2> QED
      BY <1>1, <2>1 DEF Begins
  <1>4. ASSUME Thread!DashboardReply(a) \/ Thread!BroadcastLifecycleEvent(a) PROVE ThreadsInv'
    <2>1. Thread!Handle(<<AddFrom(a)>>)
      BY <1>4 DEF Thread!DashboardReply, Thread!BroadcastLifecycleEvent, AddFrom
    <2> QED
      BY <1>1, <2>1 DEF Begins
  <1>5. ASSUME NEW p, Thread!TelegramOutbound(p, a) PROVE ThreadsInv'
    <2>1. UNCHANGED <<rows, queue, threadsTodo, attempts, accepted, threadsHeld, threadsSpoiled,
                      reader>>
      BY <1>5 DEF Thread!TelegramOutbound
    <2> QED
      BY <2>1, SameThreads
  <1>6. ASSUME Thread!TelegramAnswers(a) PROVE ThreadsInv'
    <2>1. UNCHANGED <<rows, queue, attempts, threadsHeld, threadsSpoiled, reader>>
          /\ Thread!Quiet
      BY <1>6 DEF Thread!TelegramAnswers
    <2>2. CASE threadsTodo' = <<AddOutbound(a)>> /\ accepted' = [accepted EXCEPT ![a] = @ + 1]
      BY <1>e, <2>1, <2>2, HandleStep DEF OwesOutbound
    <2>3. CASE UNCHANGED <<threadsTodo, accepted>>
      BY <2>1, <2>3, SameThreads
    <2> QED
      BY <1>6, <2>2, <2>3 DEF Thread!TelegramAnswers, AddOutbound
  <1>7. ASSUME NEW n \in Thread!Ids, Thread!Withdraw(n) PROVE ThreadsInv'
    <2>1. n \in DOMAIN rows /\ rows[n].direction = "to_agent"
      BY <1>7 DEF Thread!Withdraw
    <2>2. PICK b \in Agent : rows[n].thread = Thread!Inbox(b)
      BY <2>1 DEF ThreadsInv, ThreadType
    <2>3. rows[n].thread[2] = b
      BY <2>2 DEF Thread!Inbox
    <2>4. Thread!Handle(Thread!Cancels(n) \o <<Thread!WithdrawMessage(n)>>
                        \o <<AddNotice(b), Enqueue(b), LinkRow>>)
      BY <1>7, <2>2, <2>3 DEF Thread!Withdraw, Thread!EnqueueAndDeliver, AddNotice, Enqueue,
                              LinkRow
    <2>5. CASE rows[n].queue = 0
      <3>1. Thread!Cancels(n) \o <<Thread!WithdrawMessage(n)>>
                        \o <<AddNotice(b), Enqueue(b), LinkRow>>
             = <<Thread!WithdrawMessage(n), AddNotice(b), Enqueue(b), LinkRow>>
        BY <2>5, Sequels DEF Thread!Cancels, Thread!Cancelled
      <3> QED
        BY <1>e, <2>1, <2>2, <2>4, <2>5, <3>1, HandleStep DEF Thread!Handle, OwesWithdrawal
    <2>6. CASE rows[n].queue # 0
      <3>1. Thread!Cancels(n) \o <<Thread!WithdrawMessage(n)>>
                        \o <<AddNotice(b), Enqueue(b), LinkRow>>
             = <<Thread!CancelPendingMessage(rows[n].queue), Thread!WithdrawMessage(n),
                 AddNotice(b), Enqueue(b), LinkRow>>
        BY <2>6, Sequels DEF Thread!Cancels, Thread!Cancelled
      <3> QED
        BY <1>e, <2>1, <2>2, <2>4, <2>6, <3>1, HandleStep DEF Thread!Handle, OwesCancel
    <2> QED
      BY <2>5, <2>6
  <1> QED
    BY <1>2, <1>3, <1>4, <1>5, <1>6, <1>7

(* Fields of a record that are set.                                        *)
LEMMA RowFields ==
    ASSUME NEW A, NEW B, NEW C, NEW D, NEW E,
           NEW r \in [thread : A, direction : B, queue : C, withdrawn : D, notice : E],
           NEW c \in C, NEW d \in D
    PROVE  /\ [r EXCEPT !.queue = c]
                \in [thread : A, direction : B, queue : C, withdrawn : D, notice : E]
           /\ [r EXCEPT !.withdrawn = d]
                \in [thread : A, direction : B, queue : C, withdrawn : D, notice : E]
  OBVIOUS

(* A row that is linked, or withdrawn, stays a row.                        *)
LEMMA RowKept ==
    ASSUME NEW r \in AnyRow, NEW k \in Nat
    PROVE  /\ [r EXCEPT !.queue = k] \in AnyRow
           /\ [r EXCEPT !.withdrawn = TRUE] \in AnyRow
  <1>1. TRUE \in BOOLEAN
    OBVIOUS
  <1> QED
    BY <1>1, RowFields, Zenon DEF AnyRow

(* A row that is replaced by another.                                      *)
LEMMA ReplacedRow ==
    ASSUME rows \in Seq(AnyRow), NEW n \in DOMAIN rows, NEW r \in AnyRow,
           rows' = [rows EXCEPT ![n] = r]
    PROVE  /\ rows' \in Seq(AnyRow) /\ Len(rows') = Len(rows) /\ rows'[n] = r
           /\ \A i \in DOMAIN rows : i # n => rows'[i] = rows[i]
  OBVIOUS

(* What a row reads after it is linked.                                    *)
LEMMA LinkedRow ==
    ASSUME rows \in Seq(AnyRow), NEW n \in DOMAIN rows, NEW k \in Nat,
           rows' = [rows EXCEPT ![n].queue = k]
    PROVE  /\ rows' \in Seq(AnyRow) /\ NewRow' = NewRow
           /\ \A i \in DOMAIN rows : i # n => rows'[i] = rows[i]
           /\ rows'[n].queue = k /\ rows'[n].thread = rows[n].thread
           /\ rows'[n].direction = rows[n].direction
           /\ rows'[n].withdrawn = rows[n].withdrawn /\ rows'[n].notice = rows[n].notice
  <1>1. PICK r \in AnyRow : r = rows[n]
    OBVIOUS
  <1>2. [r EXCEPT !.queue = k] \in AnyRow
    BY RowKept
  <1>3. PICK s \in AnyRow : s = [r EXCEPT !.queue = k]
    BY <1>2
  <1>4. /\ s.queue = k /\ s.thread = r.thread /\ s.direction = r.direction
        /\ s.withdrawn = r.withdrawn /\ s.notice = r.notice
    BY <1>1, <1>3 DEF AnyRow
  <1>5. rows' = [rows EXCEPT ![n] = s]
    BY <1>1, <1>3
  <1> QED
    BY <1>1, <1>4, <1>5 DEF NewRow

(* What a row reads after it is withdrawn.                                 *)
LEMMA WithdrawnRow ==
    ASSUME rows \in Seq(AnyRow), NEW n \in DOMAIN rows,
           rows' = [rows EXCEPT ![n].withdrawn = TRUE]
    PROVE  /\ rows' \in Seq(AnyRow) /\ NewRow' = NewRow
           /\ \A i \in DOMAIN rows : i # n => rows'[i] = rows[i]
           /\ rows'[n].queue = rows[n].queue /\ rows'[n].thread = rows[n].thread
           /\ rows'[n].direction = rows[n].direction /\ rows'[n].notice = rows[n].notice
  <1>1. PICK r \in AnyRow : r = rows[n]
    OBVIOUS
  <1>2. [r EXCEPT !.withdrawn = TRUE] \in AnyRow
    BY RowKept
  <1>3. PICK s \in AnyRow : s = [r EXCEPT !.withdrawn = TRUE]
    BY <1>2
  <1>4. /\ s.queue = r.queue /\ s.thread = r.thread
        /\ s.direction = r.direction /\ s.notice = r.notice
    BY <1>1, <1>3 DEF AnyRow
  <1>5. rows' = [rows EXCEPT ![n] = s]
    BY <1>1, <1>3
  <1>6. /\ rows' \in Seq(AnyRow) /\ Len(rows') = Len(rows) /\ rows'[n] = s
        /\ \A i \in DOMAIN rows : i # n => rows'[i] = rows[i]
    BY <1>5, ReplacedRow, Zenon
  <1> QED
    BY <1>1, <1>4, <1>6 DEF NewRow

(* A client depends only on the threads and entries of the rows that were  *)
(* there when it began.                                                    *)
LEMMA RowsBefore ==
    ASSUME IsAhead(reader), UNCHANGED reader, NewRow \in Nat, NewRow' \in Nat, NewRow <= NewRow',
           DOMAIN rows = 1 .. NewRow, DOMAIN rows' = 1 .. NewRow',
           \A n \in 1 .. reader.until :
               rows'[n].thread = rows[n].thread /\ rows'[n].queue = rows[n].queue
    PROVE  IsAhead(reader)'
  <1>1. reader.until \in 0 .. NewRow /\ \A n \in reader.got : n \in 1 .. reader.until
    BY DEF IsAhead
  <1>2. \A m, n \in 1 .. reader.until :
           IsMessage(reader.merged, m, n)' <=> IsMessage(reader.merged, m, n)
    BY DEF IsMessage, Thread!SameMessage
  <1>3. ASSUME NEW n \in 1 .. reader.until, Has(reader.merged, reader.got, n)
        PROVE  Has(reader.merged, reader.got, n)'
    BY <1>1, <1>2, <1>3 DEF Has
  <1>4. ASSUME NEW n \in 1 .. reader.until, reader.more,
               Has(reader.merged, Thread!Older(reader.of, reader.before), n)
        PROVE  Has(reader.merged, Thread!Older(reader.of, reader.before), n)'
    <2>1. PICK m \in Thread!Older(reader.of, reader.before) : IsMessage(reader.merged, m, n)
      BY <1>4 DEF Has
    <2>2. m \in 1 .. reader.until /\ m < reader.before /\ rows[m].thread \in reader.of
      BY <1>1, <1>4, <2>1 DEF Thread!Older, IsAhead
    <2>3. m \in Thread!Older(reader.of, reader.before)'
      BY <1>1, <2>2 DEF Thread!Older
    <2> QED
      BY <1>2, <2>1, <2>2, <2>3 DEF Has
  <1>5. \A n \in 1 .. reader.until : rows'[n].thread = rows[n].thread
    OBVIOUS
  <1>6. reader'.until \in 0 .. NewRow'
    BY <1>1
  <1> QED
    BY <1>3, <1>4, <1>5, <1>6 DEF IsAhead

(* What an entry reads after its status is set.                            *)
LEMMA StatusStep ==
    ASSUME ThreadType, NEW q \in DOMAIN queue, NEW s \in {"pending", "delivered", "failed"},
           queue' = [queue EXCEPT ![q].status = s]
    PROVE  /\ queue' \in Seq(Thread!Entry) /\ NewEntry' = NewEntry /\ DOMAIN queue' = DOMAIN queue
           /\ \A i \in DOMAIN queue : queue'[i].to = queue[i].to
                                    /\ queue'[i].report = queue[i].report
           /\ \A i \in DOMAIN queue : i # q => queue'[i] = queue[i]
           /\ queue'[q].status = s
  <1>1. queue[q] \in Thread!Entry
    BY DEF ThreadType
  <1>2. [queue[q] EXCEPT !.status = s] \in Thread!Entry
        /\ [queue[q] EXCEPT !.status = s].to = queue[q].to
        /\ [queue[q] EXCEPT !.status = s].report = queue[q].report
        /\ [queue[q] EXCEPT !.status = s].status = s
    BY <1>1 DEF Thread!Entry
  <1>3. PICK e \in Thread!Entry : e.to = queue[q].to /\ e.report = queue[q].report /\ e.status = s
                                 /\ e = [queue[q] EXCEPT !.status = s]
    BY <1>2
  <1>4. queue' = [queue EXCEPT ![q] = e] /\ queue \in Seq(Thread!Entry)
    BY <1>3 DEF ThreadType
  <1>5. /\ queue' \in Seq(Thread!Entry) /\ Len(queue') = Len(queue)
        /\ DOMAIN queue' = DOMAIN queue /\ queue'[q] = e
        /\ \A i \in DOMAIN queue : i # q => queue'[i] = queue[i]
    BY <1>4
  <1> QED
    BY <1>3, <1>5 DEF NewEntry

(* The dispatcher settles entries in any order, whatever is told of them.  *)
LEMMA AttemptsStep ==
    ASSUME ThreadsInv, NEW q \in DOMAIN queue,
           Thread!AttemptStarts(q) \/ Thread!AttemptSucceeds(q) \/ Thread!AttemptFails(q)
    PROVE  ThreadsInv'
  <1>1. /\ UNCHANGED <<rows, accepted, threadsHeld, threadsSpoiled, reader>>
        /\ threadsTodo = <<>> /\ Thread!Quiet
    BY DEF Thread!AttemptStarts, Thread!AttemptSucceeds, Thread!AttemptFails, Thread!Quiet
  <1>2. ThreadType
    BY DEF ThreadsInv
  <1>3. ASSUME q \in attempts, attempts' = attempts \ {q},
               NEW s \in {"pending", "delivered", "failed"},
               queue' = [queue EXCEPT ![q].status = s],
               s # "pending" \/ queue[q].status = "pending"
        PROVE  EntriesSettle
    <2>1. /\ queue' \in Seq(Thread!Entry) /\ NewEntry' = NewEntry /\ DOMAIN queue' = DOMAIN queue
          /\ \A i \in DOMAIN queue : queue'[i].to = queue[i].to
                                   /\ queue'[i].report = queue[i].report
          /\ \A i \in DOMAIN queue : i # q => queue'[i] = queue[i]
          /\ queue'[q].status = s
      BY <1>2, <1>3, StatusStep
    <2>2. \A i \in DOMAIN queue : queue[i].status # "pending" => queue'[i].status # "pending"
      BY <1>3, <2>1
    <2>3. /\ \A i \in threadsHeld : i \notin attempts' /\ i # q /\ i \in DOMAIN queue
          /\ attempts' \subseteq DOMAIN queue
      BY <1>2, <1>3 DEF ThreadType
    <2> QED
      BY <2>1, <2>2, <2>3, Zenon DEF EntriesSettle
  <1>4. ASSUME EntriesSettle, threadsTodo' = <<>> PROVE ThreadsInv'
    <2>1. TodoIs'
      BY <1>4 DEF TodoIs
    <2>2. ReaderIsAhead'
      BY <1>1, <1>4 DEF ThreadsInv, ReaderIsAhead, IsAhead, Has, IsMessage, Thread!SameMessage,
                        Thread!Older, NewRow
    <2>3. ThreadType'
      BY <1>1, <1>4 DEF ThreadsInv, ThreadType, EntriesSettle
    <2>4. ASSUME ThreadsKept PROVE ThreadsKept'
      <3>1. EntriesShown'
        BY <1>1, <1>2, <1>4, <2>4, NothingLeft, SettledStay DEF ThreadsKept, EntriesShown
      <3>2. RowsLinked'
        BY <1>1, <2>4, NothingLeft DEF ThreadsKept, RowsLinked, NewRow
      <3>3. \A n \in DOMAIN rows : ThreadSettled(n) => ThreadSettled(n)'
        BY <1>1, <1>2, <1>4, SettledStay
      <3>4. WithdrawnAreTold'
        BY <1>1, <1>4, <2>4, <3>3, NothingLeft DEF ThreadsKept, WithdrawnAreTold, ThreadTold, WillBeTold
      <3>5. AcceptedHaveRows'
        BY <1>1, <1>4, <2>4 DEF ThreadsKept, AcceptedHaveRows, Posted
      <3> QED
        BY <3>1, <3>2, <3>4, <3>5 DEF ThreadsKept
    <2> QED
      BY <1>1, <2>1, <2>2, <2>3, <2>4 DEF ThreadsInv
  <1>5. CASE Thread!AttemptStarts(q)
    <2>1. EntriesSettle /\ threadsTodo' = <<>>
      BY <1>1, <1>2, <1>5 DEF EntriesSettle, ThreadType, Thread!AttemptStarts, NewEntry
    <2> QED
      BY <1>4, <2>1
  <1>6. CASE Thread!AttemptSucceeds(q)
    <2>1. /\ q \in attempts /\ attempts' = attempts \ {q} /\ threadsTodo' = <<>>
          /\ queue' = [queue EXCEPT ![q].status = "delivered"]
      BY <1>1, <1>6 DEF Thread!AttemptSucceeds
    <2> QED
      BY <1>3, <1>4, <2>1
  <1>7. CASE Thread!AttemptFails(q)
    <2>1. PICK s \in {queue[q].status, "failed"} :
             /\ q \in attempts /\ attempts' = attempts \ {q}
             /\ queue' = [queue EXCEPT ![q].status = s]
             /\ threadsTodo' = IF s = "failed" THEN Thread!AutoReply(q) ELSE <<>>
      BY <1>7 DEF Thread!AttemptFails, Thread!Begin
    <2>2. queue[q] \in Thread!Entry
      BY <1>2 DEF ThreadType
    <2>3. s \in {"pending", "delivered", "failed"} /\ (s # "pending" \/ queue[q].status = "pending")
          /\ queue[q].to \in Agent /\ queue[q].from \in Agent \cup {None}
      BY <2>2 DEF Thread!Entry
    <2>4. EntriesSettle
      BY <1>3, <2>1, <2>3
    <2>5. CASE s # "failed"
      BY <1>4, <2>1, <2>4, <2>5
    <2>6. CASE s = "failed" /\ queue[q].from = None
      <3>1. threadsTodo' = <<AddFrom(queue[q].to)>>
        BY <2>1, <2>6 DEF Thread!AutoReply, AddFrom
      <3> QED
        BY <1>1, <2>3, <2>4, <3>1, HandleStep DEF Begins
    <2>7. CASE s = "failed" /\ queue[q].from # None
      <3>1. OwesReport(threadsTodo', queue[q].from)
        BY <2>1, <2>7 DEF Thread!AutoReply, OwesReport
      <3> QED
        BY <1>1, <2>3, <2>4, <2>7, <3>1, HandleStep
    <2> QED
      BY <2>5, <2>6, <2>7
  <1> QED
    BY <1>5, <1>6, <1>7

(* The end of the process between two handlers loses none of this.         *)
LEMMA ThreadsRestart == ASSUME ThreadsInv, Thread!Restart PROVE ThreadsInv'
  <1>1. /\ UNCHANGED <<rows, queue, accepted, threadsHeld>>
        /\ threadsTodo' = <<>> /\ attempts' = {} /\ reader' = Thread!NoWalk
        /\ ~threadsSpoiled' => ~threadsSpoiled /\ threadsTodo = <<>>
    BY DEF Thread!Restart, Thread!Quiet
  <1>2. TodoIs' /\ ReaderIsAhead'
    BY <1>1 DEF TodoIs, ReaderIsAhead, Thread!NoWalk
  <1>3. ThreadType'
    BY <1>1 DEF ThreadsInv, ThreadType, NewEntry
  <1>4. ASSUME ThreadsKept, threadsTodo' = threadsTodo PROVE ThreadsKept'
    BY <1>1, <1>4 DEF ThreadsKept, EntriesShown, HasRow, RowsLinked, WithdrawnAreTold, ThreadSettled,
                ThreadTold, WillBeTold, AcceptedHaveRows, Posted, NewRow, NewEntry
  <1> QED
    BY <1>1, <1>2, <1>3, <1>4 DEF ThreadsInv

-----------------------------------------------------------------------------
(* What each statement does.                                               *)
LEMMA Executed ==
    ASSUME Thread!Execute, NEW s, s = Head(threadsTodo)
    PROVE  /\ UNCHANGED <<attempts, accepted, threadsSpoiled, reader>>
           /\ threadsTodo' = Tail(threadsTodo)
           /\ s.do = "add" =>
                 rows' = Append(rows, s.row) /\ UNCHANGED <<queue, threadsHeld>>
           /\ s.do = "enqueue" =>
                 queue' = Append(queue, s.new) /\ UNCHANGED <<rows, threadsHeld>>
           /\ s.do = "link" =>
                 /\ rows' = [rows EXCEPT ![NewRow].queue = NewEntry]
                 /\ UNCHANGED <<queue, threadsHeld>>
           /\ s.do = "withdraw" =>
                 /\ rows' = [rows EXCEPT ![s.id].withdrawn = TRUE]
                 /\ UNCHANGED <<queue, threadsHeld>>
           /\ s.do = "cancel" =>
                 /\ UNCHANGED rows
                 /\ \/ /\ queue[s.entry].status = "pending"
                       /\ queue' = [queue EXCEPT ![s.entry].status = "failed"]
                       /\ threadsHeld' \subseteq threadsHeld \cup ({s.entry} \ attempts)
                    \/ queue[s.entry].status # "pending" /\ UNCHANGED <<queue, threadsHeld>>
  BY DEF Thread!Execute, NewRow, NewEntry

(* A row is added.                                                         *)
LEMMA AddRow ==
    ASSUME ThreadsInv, NEW r \in AnyRow, rows' = Append(rows, r),
           UNCHANGED <<queue, attempts, accepted, threadsHeld, threadsSpoiled, reader>>,
           r.queue = 0, ~r.withdrawn, TodoIs', ~Fresh(threadsTodo),
           r.direction = "to_agent" =>
               Fresh(threadsTodo') /\ \E a \in Agent : r.thread = Thread!Inbox(a),
           Rowless(threadsTodo) => OwesLink(threadsTodo') \/ Rowless(threadsTodo'),
           \A a \in Agent : OwesNotice(threadsTodo, a) =>
               OwesEntry(threadsTodo', a) /\ r.notice /\ r.thread = Thread!Inbox(a),
           \A n \in DOMAIN rows', a \in Agent : ~OwesWithdrawal(threadsTodo', n, a),
           \A a \in Agent : /\ OwesOutbound(threadsTodo, a) <=> r.thread = Thread!Outbound(a)
                            /\ ~OwesOutbound(threadsTodo', a)
    PROVE  ThreadsInv'
  <1>1. /\ NewRow \in Nat /\ NewRow' = NewRow + 1 /\ DOMAIN rows = 1 .. NewRow
        /\ DOMAIN rows' = 1 .. NewRow + 1 /\ rows'[NewRow + 1] = r /\ rows' \in Seq(AnyRow)
        /\ \A n \in DOMAIN rows : rows'[n] = rows[n]
    BY DEF ThreadsInv, ThreadType, NewRow
  <1>2. ThreadType'
    BY <1>1 DEF ThreadsInv, ThreadType, NewEntry
  <1>3. ReaderIsAhead'
    <2> SUFFICES ASSUME reader # Thread!NoWalk, IsAhead(reader)
                 PROVE  IsAhead(reader)' /\ reader.until < NewRow + 1
      BY <1>1 DEF ThreadsInv, ReaderIsAhead
    <2>1. reader.until \in 0 .. NewRow
      BY DEF IsAhead
    <2> QED
      BY <1>1, <2>1, RowsBefore
  <1>4. ASSUME ThreadsKept PROVE ThreadsKept'
    <2>1. ASSUME NEW q \in DOMAIN queue, HasRow(q) PROVE HasRow(q)'
      BY <1>1, <2>1 DEF HasRow
    <2>2. EntriesShown'
      <3> SUFFICES ASSUME NEW q \in DOMAIN queue, ~queue[q].report
                   PROVE  HasRow(q)' \/ (q = NewEntry /\ (OwesLink(threadsTodo')
                                                          \/ Rowless(threadsTodo')))
        BY DEF EntriesShown, NewEntry
      <3> QED
        BY <1>4, <2>1 DEF ThreadsKept, EntriesShown, Fresh
    <2>3. RowsLinked'
      BY <1>1, <1>4 DEF ThreadsKept, RowsLinked
    <2>4. ASSUME NEW n \in DOMAIN rows, rows[n].withdrawn PROVE ThreadTold(n)' \/ WillBeTold(n)'
      <3>1. CASE ThreadTold(n)
        BY <1>1, <3>1 DEF ThreadTold
      <3>2. CASE WillBeTold(n)
        <4>1. PICK a \in Agent : OwesNotice(threadsTodo, a) /\ rows[n].thread = Thread!Inbox(a)
          BY <3>2 DEF WillBeTold
        <4>2. OwesEntry(threadsTodo', a) /\ r.notice /\ r.thread = Thread!Inbox(a)
          BY <4>1
        <4>3. Fresh(threadsTodo') /\ ~OwesLink(threadsTodo')
          BY <4>2, Stages DEF Fresh
        <4> QED
          BY <1>1, <4>1, <4>2, <4>3 DEF WillBeTold
      <3> QED
        BY <1>4, <2>4, <3>1, <3>2 DEF ThreadsKept, WithdrawnAreTold
    <2>5. \A n \in DOMAIN rows : ThreadSettled(n) => ThreadSettled(n)'
      BY <1>1 DEF ThreadSettled
    <2>6. \A n \in DOMAIN rows' : rows'[n].withdrawn => n \in DOMAIN rows /\ rows[n].withdrawn
      BY <1>1
    <2>7. WithdrawnAreTold'
      BY <1>4, <2>4, <2>5, <2>6 DEF ThreadsKept, WithdrawnAreTold
    <2>8. ASSUME NEW a \in Agent PROVE accepted[a] = Cardinality(Posted(a)')
      <3>1. IsFiniteSet(Posted(a)) /\ Cardinality(Posted(a)) \in Nat
        BY PostedCount DEF ThreadsInv
      <3>2. accepted[a] = Cardinality(Posted(a)) + (IF OwesOutbound(threadsTodo, a) THEN 1 ELSE 0)
        BY <1>4 DEF ThreadsKept, AcceptedHaveRows
      <3>3. CASE r.thread = Thread!Outbound(a)
        <4>1. Posted(a)' = Posted(a) \cup {NewRow + 1} /\ NewRow + 1 \notin Posted(a)
          BY <1>1, <3>3 DEF Posted
        <4>2. Cardinality(Posted(a)') = Cardinality(Posted(a)) + 1
          BY <3>1, <4>1, FS_AddElement, ZenonT(60)
        <4> QED
          BY <3>2, <3>3, <4>2
      <3>4. CASE r.thread # Thread!Outbound(a)
        <4>1. Posted(a)' = Posted(a)
          BY <1>1, <3>4 DEF Posted
        <4> QED
          BY <3>1, <3>2, <3>4, <4>1
      <3> QED
        BY <3>3, <3>4
    <2>9. ASSUME NEW a \in Agent PROVE Cardinality(Posted(a)') \in Nat
      BY <1>2, <2>8 DEF ThreadType
    <2>10. AcceptedHaveRows'
      BY <2>8, <2>9 DEF AcceptedHaveRows
    <2> QED
      BY <2>2, <2>3, <2>7, <2>10 DEF ThreadsKept
  <1> QED
    BY <1>2, <1>3, <1>4 DEF ThreadsInv

(* An entry is added.                                                      *)
LEMMA AppendedEntry ==
    ASSUME ThreadsInv, NEW e \in Thread!Entry, queue' = Append(queue, e)
    PROVE  /\ NewEntry \in Nat /\ NewEntry' = NewEntry + 1 /\ DOMAIN queue = 1 .. NewEntry
           /\ DOMAIN queue' = 1 .. NewEntry + 1 /\ queue' \in Seq(Thread!Entry)
           /\ \A q \in DOMAIN queue : queue'[q] = queue[q]
           /\ queue'[NewEntry'] = e /\ queue' # <<>>
  <1>1. queue \in Seq(Thread!Entry)
    BY DEF ThreadsInv, ThreadType
  <1> QED
    BY <1>1 DEF NewEntry

(* Once its entry is added a handler neither links a row that another      *)
(* follows, nor tells Telegram, nor withdraws a message.                   *)
LEMMA AfterEntry ==
    ASSUME NEW t, NEW b, OwesLink(t) \/ OwesRow(t, b)
    PROVE  \A a : ~OwesLinkAndRow(t, a) /\ ~OwesOutbound(t, a)
                  /\ \A n : ~OwesWithdrawal(t, n, a)
  <1> SUFFICES ASSUME NEW a, NEW n
               PROVE  ~OwesLinkAndRow(t, a) /\ ~OwesOutbound(t, a) /\ ~OwesWithdrawal(t, n, a)
    OBVIOUS
  <1>1. \/ Len(t) = 1 /\ t[1].do = "link"
        \/ Len(t) \in {2, 4} /\ t[1].do = "add"
    <2>1. OwesLink(t) => Len(t) = 1 /\ t[1].do = "link"
      BY Stages
    <2>2. OwesRow(t, b) => Len(t) \in {2, 4} /\ t[1].do = "add"
      BY Stages
    <2> QED
      BY <2>1, <2>2
  <1>2. /\ OwesLinkAndRow(t, a) => Len(t) = 3
        /\ OwesOutbound(t, a) => Len(t) = 1 /\ t[1].do = "add"
        /\ OwesWithdrawal(t, n, a) => t[1].do = "withdraw"
    BY Stages
  <1> QED
    BY <1>1, <1>2

LEMMA AddEntry ==
    ASSUME ThreadsInv, NEW b \in Agent, NEW e \in Thread!Entry, queue' = Append(queue, e),
           UNCHANGED <<rows, attempts, accepted, threadsHeld, threadsSpoiled, reader>>, TodoIs',
           ~OwesLink(threadsTodo), ~Rowless(threadsTodo),
           \A a \in Agent : ~OwesNotice(threadsTodo, a),
           \/ OwesLink(threadsTodo') /\ Fresh(threadsTodo)
           \/ ~Fresh(threadsTodo) /\ OwesRow(threadsTodo', b),
           \A a \in Agent : ~OwesOutbound(threadsTodo, a)
    PROVE  ThreadsInv'
  <1>1. /\ NewEntry \in Nat /\ NewEntry' = NewEntry + 1 /\ DOMAIN queue = 1 .. NewEntry
        /\ DOMAIN queue' = 1 .. NewEntry + 1 /\ queue' \in Seq(Thread!Entry)
        /\ \A q \in DOMAIN queue : queue'[q] = queue[q]
    BY AppendedEntry
  <1>2. ThreadType'
    BY <1>1 DEF ThreadsInv, ThreadType
  <1>3. Fresh(threadsTodo') => OwesLink(threadsTodo')
    BY Stages DEF Fresh
  <1>4. \A a : ~OwesLinkAndRow(threadsTodo', a) /\ ~OwesOutbound(threadsTodo', a)
               /\ \A n : ~OwesWithdrawal(threadsTodo', n, a)
    BY AfterEntry
  <1>5. ReaderIsAhead'
    <2> SUFFICES ASSUME reader # Thread!NoWalk, IsAhead(reader)
                 PROVE  /\ IsAhead(reader)'
                        /\ Fresh(threadsTodo') => reader.until < NewRow
      BY <1>4 DEF ThreadsInv, ReaderIsAhead, NewRow
    <2>1. Fresh(threadsTodo') => Fresh(threadsTodo)
      BY <1>3, Stages
    <2>2. Fresh(threadsTodo') => reader.until < NewRow
      BY <2>1 DEF ThreadsInv, ReaderIsAhead
    <2> QED
      BY <2>2, RowsBefore DEF IsAhead, NewRow, ThreadsInv, ThreadType
  <1>6. ASSUME ThreadsKept PROVE ThreadsKept'
    <2>1. ASSUME NEW q \in DOMAIN queue, ~queue[q].report PROVE HasRow(q)'
      <3>1. HasRow(q)
        BY <1>6, <2>1 DEF ThreadsKept, EntriesShown
      <3> QED
        BY <1>1, <3>1 DEF HasRow
    <2>2. EntriesShown'
      BY <1>1, <2>1 DEF EntriesShown, Rowless
    <2>3. RowsLinked'
      <3>1. Fresh(threadsTodo) => Fresh(threadsTodo')
        BY DEF Fresh
      <3> QED
        BY <1>6, <3>1 DEF ThreadsKept, RowsLinked, NewRow
    <2>4. \A n \in DOMAIN rows : rows[n].queue \in 0 .. NewEntry
      BY DEF ThreadsInv, ThreadType
    <2>5. \A n \in DOMAIN rows : ThreadSettled(n) => ThreadSettled(n)'
      BY <1>1, <2>4 DEF ThreadSettled
    <2>6. ASSUME NEW n \in DOMAIN rows, ThreadTold(n) \/ WillBeTold(n) PROVE ThreadTold(n)' \/ WillBeTold(n)'
      <3>1. CASE ThreadTold(n)
        BY <3>1 DEF ThreadTold
      <3>2. CASE WillBeTold(n)
        BY <1>1, <2>4, <3>2 DEF WillBeTold, Fresh, NewRow
      <3> QED
        BY <2>6, <3>1, <3>2
    <2>7. WithdrawnAreTold'
      BY <1>4, <1>6, <2>5, <2>6 DEF ThreadsKept, WithdrawnAreTold
    <2>8. AcceptedHaveRows'
      BY <1>4, <1>6 DEF ThreadsKept, AcceptedHaveRows, Posted
    <2> QED
      BY <2>2, <2>3, <2>7, <2>8 DEF ThreadsKept
  <1> QED
    BY <1>2, <1>5, <1>6 DEF ThreadsInv

(* A report of a failure is added, which needs no row.                     *)
LEMMA ReportStep ==
    ASSUME ThreadsInv, Thread!Execute, NEW b \in Agent, OwesReport(threadsTodo, b)
    PROVE  ThreadsInv'
  <1> DEFINE t == threadsTodo
             e == [from |-> None, to |-> b, report |-> TRUE, status |-> "pending"]
             s == Thread!EnqueueReport(b)
  <1>1. /\ Head(threadsTodo) = s /\ s.do = "enqueue" /\ s.new = e /\ Tail(threadsTodo) = <<>>
        /\ e \in Thread!Entry /\ e.report
    BY DEF OwesReport, Thread!EnqueueReport, Thread!Entry
  <1> HIDE DEF e, s
  <1>2. /\ UNCHANGED <<rows, attempts, accepted, threadsSpoiled, reader, threadsHeld>>
        /\ threadsTodo' = <<>> /\ queue' = Append(queue, e)
    BY <1>1, Executed
  <1>3. /\ NewEntry \in Nat /\ NewEntry' = NewEntry + 1 /\ DOMAIN queue = 1 .. NewEntry
        /\ DOMAIN queue' = 1 .. NewEntry + 1 /\ queue' \in Seq(Thread!Entry)
        /\ \A q \in DOMAIN queue : queue'[q] = queue[q]
        /\ queue'[NewEntry'] = e
    BY <1>1, <1>2, AppendedEntry
  <1>4. /\ ~Fresh(t) /\ ~Rowless(t) /\ ~OwesLink(t)
        /\ \A a : ~OwesNotice(t, a) /\ ~OwesOutbound(t, a)
    <2>1. Len(t) = 1 /\ t[1].do = "enqueue"
      BY Stages
    <2> HIDE DEF t
    <2> QED
      BY <2>1, Stages DEF Fresh, Rowless
  <1>5. ThreadType'
    BY <1>2, <1>3 DEF ThreadsInv, ThreadType
  <1>6. TodoIs' /\ ReaderIsAhead'
    BY <1>2, NothingLeft DEF TodoIs, ThreadsInv, ReaderIsAhead, IsAhead, Has, IsMessage,
                             Thread!SameMessage, Thread!Older, NewRow
  <1>7. ASSUME ThreadsKept PROVE ThreadsKept'
    <2>1. ASSUME NEW q \in DOMAIN queue, ~queue[q].report PROVE HasRow(q)'
      <3>1. HasRow(q)
        BY <1>4, <1>7, <2>1 DEF ThreadsKept, EntriesShown
      <3> QED
        BY <1>2, <1>3, <3>1 DEF HasRow
    <2>2. EntriesShown'
      <3> SUFFICES ASSUME NEW q \in DOMAIN queue', ~queue'[q].report PROVE HasRow(q)'
        BY DEF EntriesShown
      <3>1. q \in DOMAIN queue
        BY <1>1, <1>3
      <3> QED
        BY <1>3, <2>1, <3>1
    <2>3. RowsLinked'
      BY <1>2, <1>4, <1>7 DEF ThreadsKept, RowsLinked, NewRow
    <2>4. ASSUME NEW n \in DOMAIN rows, ThreadSettled(n) PROVE ThreadSettled(n)'
      <3>1. rows[n].queue \in DOMAIN queue
        BY <1>3, <2>4 DEF ThreadSettled, ThreadsInv, ThreadType
      <3> QED
        BY <1>2, <1>3, <2>4, <3>1 DEF ThreadSettled
    <2>5. \A n \in DOMAIN rows : rows[n].withdrawn => ThreadSettled(n) /\ ThreadTold(n)
      BY <1>4, <1>7 DEF ThreadsKept, WithdrawnAreTold, WillBeTold
    <2>6. WithdrawnAreTold'
      BY <1>2, <2>4, <2>5, NothingLeft DEF WithdrawnAreTold, ThreadTold
    <2>7. AcceptedHaveRows'
      <3>1. \A a \in Agent : ~OwesOutbound(threadsTodo', a) /\ ~OwesOutbound(threadsTodo, a)
        BY <1>2, <1>4, NothingLeft
      <3> QED
        BY <1>2, <1>7, <3>1 DEF ThreadsKept, AcceptedHaveRows, Posted
    <2> QED
      BY <2>2, <2>3, <2>6, <2>7 DEF ThreadsKept
  <1> QED
    BY <1>2, <1>5, <1>6, <1>7 DEF ThreadsInv

(* The last row is linked to the last entry.                               *)
LEMMA LinkStep ==
    ASSUME ThreadsInv, rows # <<>>, queue # <<>>,
           rows' = [rows EXCEPT ![NewRow].queue = NewEntry], ~rows[NewRow].withdrawn,
           UNCHANGED <<queue, attempts, accepted, threadsHeld, threadsSpoiled, reader>>,
           NEW a \in Agent, LastEntryIsOf(a), TodoIs',
           \/ /\ OwesLinkAndRow(threadsTodo, a) /\ rows[NewRow].direction = "from_agent"
              /\ threadsTodo' = <<AddTo(a), LinkRow>>
           \/ OwesLink(threadsTodo) /\ LastRowIsOf(a) /\ threadsTodo' = <<>>
    PROVE  ThreadsInv'
  <1>1. /\ rows \in Seq(AnyRow) /\ NewRow \in DOMAIN rows /\ DOMAIN rows = 1 .. NewRow
        /\ NewRow \in Nat /\ NewEntry \in Nat /\ NewEntry # 0 /\ NewEntry \in DOMAIN queue
    BY DEF ThreadsInv, ThreadType, NewRow, NewEntry
  <1>2. /\ rows' \in Seq(AnyRow) /\ NewRow' = NewRow /\ DOMAIN rows' = DOMAIN rows
        /\ \A i \in DOMAIN rows : i # NewRow => rows'[i] = rows[i]
        /\ rows'[NewRow].queue = NewEntry
        /\ \A i \in DOMAIN rows : /\ rows'[i].thread = rows[i].thread
                                  /\ rows'[i].direction = rows[i].direction
                                  /\ rows'[i].withdrawn = rows[i].withdrawn
                                  /\ rows'[i].notice = rows[i].notice
    BY <1>1, LinkedRow DEF NewRow
  <1>3. \A i \in DOMAIN rows : rows[i].queue \in 0 .. NewEntry
    BY DEF ThreadsInv, ThreadType
  <1>4. ThreadType'
    BY <1>1, <1>2, <1>3 DEF ThreadsInv, ThreadType, NewEntry
  <1>5. /\ ~Fresh(threadsTodo')
        /\ \A b : /\ ~OwesNotice(threadsTodo', b) /\ ~OwesLinkAndRow(threadsTodo', b)
                  /\ ~OwesOutbound(threadsTodo', b) /\ ~OwesOutbound(threadsTodo, b)
                  /\ \A n : ~OwesWithdrawal(threadsTodo', n, b)
    <2> DEFINE t == threadsTodo
               u == threadsTodo'
    <2>1. (u = <<>> \/ (Len(u) = 2 /\ u[1].do = "add")) /\ t[1].do = "link"
      BY Stages DEF AddTo, LinkRow, Thread!AddDashboardMessage
    <2> HIDE DEF t, u
    <2>2. /\ ~Fresh(u)
          /\ \A b : /\ ~OwesNotice(u, b) /\ ~OwesLinkAndRow(u, b)
                    /\ ~OwesOutbound(u, b) /\ ~OwesOutbound(t, b)
                    /\ \A n : ~OwesWithdrawal(u, n, b)
      BY <2>1, Stages, NothingLeft DEF Fresh
    <2> QED
      BY <2>2 DEF t, u
  <1>6. ReaderIsAhead'
    <2> SUFFICES ASSUME reader # Thread!NoWalk, IsAhead(reader) PROVE IsAhead(reader)'
      BY <1>5 DEF ThreadsInv, ReaderIsAhead
    <2>1. reader.until < NewRow /\ reader.until \in 0 .. NewRow
      BY DEF ThreadsInv, ReaderIsAhead, Fresh, IsAhead
    <2> QED
      BY <1>1, <1>2, <2>1, RowsBefore
  <1>7. ASSUME ThreadsKept PROVE ThreadsKept'
    <2>1. ASSUME NEW q \in DOMAIN queue, HasRow(q) PROVE HasRow(q)'
      <3>1. PICK n \in DOMAIN rows : /\ rows[n].queue = q /\ rows[n].direction = "to_agent"
                                     /\ rows[n].thread = Thread!Inbox(queue[q].to)
        BY <2>1 DEF HasRow
      <3>2. n # NewRow
        BY <3>1 DEF LastRowIsOf, ThreadsInv, ThreadType
      <3> QED
        BY <1>2, <3>1, <3>2 DEF HasRow
    <2>2. ASSUME NEW q, q = NewEntry, OwesLink(threadsTodo) PROVE HasRow(q)'
      <3>1. LastRowIsOf(a)
        <4>1. Len(threadsTodo) = 1
          BY <2>2, Stages
        <4> QED
          BY <4>1, Stages
      <3> QED
        BY <1>1, <1>2, <2>2, <3>1 DEF LastRowIsOf, LastEntryIsOf, HasRow
    <2>3. ~OwesLink(threadsTodo) => Rowless(threadsTodo')
      BY DEF Rowless, OwesRow
    <2>4. EntriesShown'
      <3> SUFFICES ASSUME NEW q \in DOMAIN queue, ~queue[q].report
                   PROVE  HasRow(q)' \/ (q = NewEntry /\ Rowless(threadsTodo'))
        BY DEF EntriesShown, NewEntry
      <3> QED
        BY <1>7, <2>1, <2>2, <2>3 DEF ThreadsKept, EntriesShown
    <2>5. RowsLinked'
      BY <1>1, <1>2, <1>7 DEF ThreadsKept, RowsLinked
    <2>6. ASSUME NEW n \in DOMAIN rows, rows[n].withdrawn PROVE ThreadSettled(n)' /\ ThreadTold(n)'
      <3>1. n # NewRow /\ n < NewRow /\ ThreadSettled(n) /\ (ThreadTold(n) \/ WillBeTold(n))
        BY <1>1, <1>7, <2>6 DEF ThreadsKept, WithdrawnAreTold
      <3>2. ThreadSettled(n)'
        BY <1>2, <3>1 DEF ThreadSettled
      <3>3. PICK m \in DOMAIN rows :
               /\ n < m /\ rows[m].notice /\ rows[m].thread = rows[n].thread
               /\ rows'[m].queue > rows[n].queue
        <4>1. CASE ThreadTold(n)
          <5>1. PICK m \in DOMAIN rows :
                   /\ n < m /\ rows[m].notice /\ rows[m].thread = rows[n].thread
                   /\ rows[m].queue > rows[n].queue
            BY <4>1 DEF ThreadTold
          <5>2. rows'[m].queue >= rows[m].queue /\ rows'[m].queue \in Nat
            BY <1>1, <1>2, <1>3
          <5>3. rows'[m].queue > rows[n].queue
            BY <1>3, <5>1, <5>2
          <5> QED
            BY <5>1, <5>3
        <4>2. CASE WillBeTold(n)
          <5>1. threadsTodo[1].do = "link"
            BY Stages
          <5>2. \A b : ~OwesNotice(threadsTodo, b) /\ ~OwesEntry(threadsTodo, b)
            BY <5>1, Stages
          <5>3. OwesLink(threadsTodo)
            BY <4>2, <5>2 DEF WillBeTold, Fresh
          <5>4. /\ rows[NewRow].notice /\ rows[NewRow].thread = rows[n].thread
                /\ rows[n].queue < NewEntry
            BY <4>2, <5>2, <5>3 DEF WillBeTold
          <5>5. rows'[NewRow].queue > rows[n].queue
            BY <1>1, <1>2, <1>3, <5>4
          <5> QED
            BY <1>1, <3>1, <5>4, <5>5
        <4> QED
          BY <3>1, <4>1, <4>2
      <3>4. rows'[m].notice
        <4>1. \A i \in DOMAIN rows : rows'[i].notice = rows[i].notice
          BY <1>2, Zenon
        <4> QED
          BY <3>3, <4>1, ZenonT(40)
      <3>5. /\ m \in DOMAIN rows' /\ rows'[m].thread = rows'[n].thread
            /\ rows'[m].queue > rows'[n].queue
        BY <1>2, <3>1, <3>3
      <3>6. ThreadTold(n)'
        BY <3>3, <3>4, <3>5 DEF ThreadTold
      <3> QED
        BY <3>2, <3>6
    <2>7. WithdrawnAreTold'
      BY <1>2, <1>5, <2>6 DEF WithdrawnAreTold
    <2>8. \A b : Posted(b)' = Posted(b)
      BY <1>2 DEF Posted
    <2>9. AcceptedHaveRows'
      BY <1>5, <1>7, <2>8 DEF ThreadsKept, AcceptedHaveRows
    <2> QED
      BY <2>4, <2>5, <2>7, <2>9 DEF ThreadsKept
  <1> QED
    BY <1>4, <1>6, <1>7 DEF ThreadsInv

(* A row is withdrawn; its entry is settled, and its agent will be told.   *)
LEMMA WithdrawStep ==
    ASSUME ThreadsInv, NEW n \in DOMAIN rows, NEW a \in Agent,
           OwesWithdrawal(threadsTodo, n, a), OwesNotice(threadsTodo', a),
           rows[n].thread = Thread!Inbox(a), rows' = [rows EXCEPT ![n].withdrawn = TRUE],
           UNCHANGED <<queue, attempts, accepted, threadsHeld, threadsSpoiled, reader>>
    PROVE  ThreadsInv'
  <1>1. rows \in Seq(AnyRow) /\ NewRow \in Nat /\ DOMAIN rows = 1 .. NewRow
    BY DEF ThreadsInv, ThreadType, NewRow
  <1>2. /\ rows' \in Seq(AnyRow) /\ NewRow' = NewRow /\ DOMAIN rows' = DOMAIN rows
        /\ \A i \in DOMAIN rows : i # n => rows'[i] = rows[i]
        /\ \A i \in DOMAIN rows : /\ rows'[i].queue = rows[i].queue
                                  /\ rows'[i].thread = rows[i].thread
                                  /\ rows'[i].direction = rows[i].direction
                                  /\ rows'[i].notice = rows[i].notice
    BY <1>1, WithdrawnRow DEF NewRow
  <1>3. ThreadType'
    BY <1>2 DEF ThreadsInv, ThreadType, NewEntry
  <1>4. TodoIs'
    BY DEF TodoIs
  <1>5. /\ ~Fresh(threadsTodo) /\ ~OwesLink(threadsTodo) /\ ~Rowless(threadsTodo)
        /\ \A b : ~OwesNotice(threadsTodo, b) /\ ~OwesOutbound(threadsTodo, b)
    <2> DEFINE t == threadsTodo
    <2>1. t[1].do = "withdraw"
      BY Stages
    <2> HIDE DEF t
    <2>2. /\ ~Fresh(t) /\ ~OwesLink(t) /\ ~Rowless(t)
          /\ \A b : ~OwesNotice(t, b) /\ ~OwesOutbound(t, b)
      BY <2>1, Stages DEF Fresh, Rowless
    <2> QED
      BY <2>2 DEF t
  <1>6. /\ ~Fresh(threadsTodo') /\ \A b : ~OwesLinkAndRow(threadsTodo', b)
        /\ \A b : ~OwesOutbound(threadsTodo', b) /\ \A i : ~OwesWithdrawal(threadsTodo', i, b)
    <2> DEFINE u == threadsTodo'
    <2>1. u[1].do = "add" /\ Len(u) = 3
      BY Stages
    <2> HIDE DEF u
    <2>2. /\ ~Fresh(u) /\ \A b : ~OwesLinkAndRow(u, b)
          /\ \A b : ~OwesOutbound(u, b) /\ \A i : ~OwesWithdrawal(u, i, b)
      BY <2>1, Stages DEF Fresh
    <2> QED
      BY <2>2 DEF u
  <1>7. ReaderIsAhead'
    <2> SUFFICES ASSUME reader # Thread!NoWalk, IsAhead(reader) PROVE IsAhead(reader)'
      BY <1>6 DEF ThreadsInv, ReaderIsAhead
    <2>1. reader.until \in 0 .. NewRow
      BY DEF IsAhead
    <2> QED
      BY <1>1, <1>2, <2>1, RowsBefore
  <1>8. ASSUME ThreadsKept PROVE ThreadsKept'
    <2>1. EntriesShown'
      BY <1>2, <1>5, <1>8 DEF ThreadsKept, EntriesShown, HasRow
    <2>2. RowsLinked'
      BY <1>2, <1>5, <1>8 DEF ThreadsKept, RowsLinked
    <2>3. \A i \in DOMAIN rows : ThreadSettled(i)' <=> ThreadSettled(i)
      BY <1>2 DEF ThreadSettled
    <2>4. \A i \in DOMAIN rows : rows'[i].withdrawn => ThreadSettled(i)
      BY <1>2, <1>8 DEF ThreadsKept, WithdrawnAreTold
    <2>5. ASSUME NEW i \in DOMAIN rows, rows'[i].withdrawn PROVE ThreadTold(i)' \/ WillBeTold(i)'
      <3>1. CASE i = n
        BY <1>2, <3>1 DEF WillBeTold
      <3>2. CASE i # n
        <4>1. ThreadTold(i)
          BY <1>2, <1>5, <1>8, <2>5, <3>2 DEF ThreadsKept, WithdrawnAreTold, WillBeTold
        <4> QED
          BY <1>2, <4>1 DEF ThreadTold
      <3> QED
        BY <3>1, <3>2
    <2>6. WithdrawnAreTold'
      BY <1>2, <1>6, <2>3, <2>4, <2>5 DEF WithdrawnAreTold
    <2>7. \A b : Posted(b)' = Posted(b)
      BY <1>2 DEF Posted
    <2>8. AcceptedHaveRows'
      BY <1>5, <1>6, <1>8, <2>7 DEF ThreadsKept, AcceptedHaveRows
    <2> QED
      BY <2>1, <2>2, <2>6, <2>8 DEF ThreadsKept
  <1> QED
    BY <1>3, <1>4, <1>7, <1>8 DEF ThreadsInv

(* The entry of a row that is to be withdrawn is settled.                  *)
LEMMA CancelStep ==
    ASSUME ThreadsInv, NEW n \in DOMAIN rows, NEW a \in Agent,
           OwesCancel(threadsTodo, rows[n].queue, n, a), OwesWithdrawal(threadsTodo', n, a),
           rows[n].thread = Thread!Inbox(a), rows[n].direction = "to_agent", rows[n].queue # 0,
           UNCHANGED <<rows, attempts, accepted, threadsSpoiled, reader>>,
           \/ /\ queue' = [queue EXCEPT ![rows[n].queue].status = "failed"]
              /\ threadsHeld' \subseteq threadsHeld \cup ({rows[n].queue} \ attempts)
           \/ queue[rows[n].queue].status # "pending" /\ UNCHANGED <<queue, threadsHeld>>
    PROVE  ThreadsInv'
  <1>1. rows[n].queue \in DOMAIN queue /\ DOMAIN queue = 1 .. NewEntry
    BY DEF ThreadsInv, ThreadType, NewEntry
  <1>2. /\ \A i \in DOMAIN queue : queue'[i].to = queue[i].to
        /\ \A i \in DOMAIN queue : queue'[i].report = queue[i].report
        /\ \A i \in DOMAIN queue : queue[i].status # "pending" => queue'[i].status # "pending"
        /\ DOMAIN queue' = DOMAIN queue /\ NewEntry' = NewEntry /\ queue' \in Seq(Thread!Entry)
        /\ queue'[rows[n].queue].status # "pending"
        /\ threadsHeld' \subseteq DOMAIN queue \ attempts
        /\ \A i \in threadsHeld' : queue'[i].status = "failed"
    <2>1. ThreadType
      BY DEF ThreadsInv
    <2>2. CASE queue[rows[n].queue].status # "pending" /\ UNCHANGED <<queue, threadsHeld>>
      BY <2>1, <2>2 DEF ThreadType, NewEntry
    <2>3. CASE /\ queue' = [queue EXCEPT ![rows[n].queue].status = "failed"]
               /\ threadsHeld' \subseteq threadsHeld \cup ({rows[n].queue} \ attempts)
      <3> DEFINE q == rows[n].queue
      <3>1. /\ queue' \in Seq(Thread!Entry) /\ NewEntry' = NewEntry /\ DOMAIN queue' = DOMAIN queue
            /\ \A i \in DOMAIN queue : queue'[i].to = queue[i].to
            /\ \A i \in DOMAIN queue : queue'[i].report = queue[i].report
            /\ \A i \in DOMAIN queue : i # q => queue'[i] = queue[i]
            /\ queue'[q].status = "failed"
        BY <1>1, <2>1, <2>3, StatusStep
      <3>2. q \in DOMAIN queue /\ threadsHeld' \subseteq threadsHeld \cup ({q} \ attempts)
        BY <1>1, <2>3
      <3> HIDE DEF q
      <3>3. /\ threadsHeld' \subseteq DOMAIN queue \ attempts
            /\ \A i \in threadsHeld' : queue'[i].status = "failed"
        BY <2>1, <3>1, <3>2 DEF ThreadType
      <3>4. queue'[q].status # "pending"
        BY <3>1
      <3>5. \A i \in DOMAIN queue : queue[i].status # "pending" => queue'[i].status # "pending"
        BY <3>1
      <3> QED
        BY <3>1, <3>3, <3>4, <3>5 DEF q
    <2> QED
      BY <2>2, <2>3
  <1>3. ThreadType'
    BY <1>2 DEF ThreadsInv, ThreadType
  <1>4. TodoIs'
    BY DEF TodoIs
  <1>5. /\ ~Fresh(threadsTodo) /\ ~OwesLink(threadsTodo) /\ ~Rowless(threadsTodo)
        /\ \A b : ~OwesNotice(threadsTodo, b) /\ ~OwesOutbound(threadsTodo, b)
    <2> DEFINE t == threadsTodo
    <2>1. t[1].do = "cancel"
      BY Stages
    <2> HIDE DEF t
    <2>2. /\ ~Fresh(t) /\ ~OwesLink(t) /\ ~Rowless(t)
          /\ \A b : ~OwesNotice(t, b) /\ ~OwesOutbound(t, b)
      BY <2>1, Stages DEF Fresh, Rowless
    <2> QED
      BY <2>2 DEF t
  <1>6. /\ ~Fresh(threadsTodo') /\ \A b : ~OwesLinkAndRow(threadsTodo', b)
        /\ \A b : ~OwesOutbound(threadsTodo', b)
        /\ \A b, i : OwesWithdrawal(threadsTodo', i, b) => i = n
    <2> DEFINE u == threadsTodo'
    <2>1. u[1].do = "withdraw" /\ u[1].id = n
      BY Stages
    <2> HIDE DEF u
    <2>2. /\ ~Fresh(u) /\ \A b : ~OwesLinkAndRow(u, b) /\ ~OwesOutbound(u, b)
          /\ \A b, i : OwesWithdrawal(u, i, b) => i = n
      BY <2>1, Stages DEF Fresh
    <2> QED
      BY <2>2 DEF u
  <1>7. ReaderIsAhead'
    <2> SUFFICES ASSUME reader # Thread!NoWalk, IsAhead(reader) PROVE IsAhead(reader)'
      BY <1>6 DEF ThreadsInv, ReaderIsAhead
    <2>1. NewRow \in Nat /\ DOMAIN rows = 1 .. NewRow /\ UNCHANGED NewRow
      BY DEF ThreadsInv, ThreadType, NewRow
    <2> QED
      BY <2>1, RowsBefore
  <1>8. ASSUME ThreadsKept PROVE ThreadsKept'
    <2>1. EntriesShown'
      BY <1>2, <1>5, <1>8 DEF ThreadsKept, EntriesShown, HasRow
    <2>2. RowsLinked'
      BY <1>5, <1>8 DEF ThreadsKept, RowsLinked, NewRow
    <2>3. ASSUME NEW i \in DOMAIN rows, ThreadSettled(i) PROVE ThreadSettled(i)'
      <3>1. rows[i].queue \in DOMAIN queue
        BY <1>1, <2>3 DEF ThreadSettled, ThreadsInv, ThreadType
      <3> QED
        BY <1>2, <2>3, <3>1 DEF ThreadSettled
    <2>4. ThreadSettled(n)'
      BY <1>2 DEF ThreadSettled
    <2>5. \A i \in DOMAIN rows : rows[i].withdrawn => ThreadSettled(i) /\ ThreadTold(i)
      BY <1>5, <1>8 DEF ThreadsKept, WithdrawnAreTold, WillBeTold
    <2>6. \A i \in DOMAIN rows : ThreadTold(i) => ThreadTold(i)'
      BY DEF ThreadTold
    <2>7. WithdrawnAreTold'
      BY <1>6, <2>3, <2>4, <2>5, <2>6 DEF WithdrawnAreTold
    <2>8. AcceptedHaveRows'
      BY <1>5, <1>6, <1>8 DEF ThreadsKept, AcceptedHaveRows, Posted
    <2> QED
      BY <2>1, <2>2, <2>7, <2>8 DEF ThreadsKept
  <1> QED
    BY <1>3, <1>4, <1>7, <1>8 DEF ThreadsInv

(* A row that is written.                                                  *)
LEMMA WrittenRow ==
    ASSUME NEW A, NEW D, NEW C, NEW W, NEW x \in A, NEW y \in D, NEW c \in C, NEW w \in W,
           NEW b \in W
    PROVE  [thread |-> x, direction |-> y, queue |-> c, withdrawn |-> w, notice |-> b]
             \in [thread : A, direction : D, queue : C, withdrawn : W, notice : W]
  OBVIOUS

(* The row that a statement adds.                                          *)
LEMMA RowsAdded ==
    ASSUME NEW a \in Agent, NEW x \in Thread!ThreadName, NEW y \in {"to_agent", "from_agent"}
    PROVE  /\ Thread!AddDashboardMessage(x, y).do = "add"
           /\ Thread!AddDashboardMessage(x, y).row \in AnyRow
           /\ Thread!AddDashboardMessage(x, y).row.queue = 0
           /\ ~Thread!AddDashboardMessage(x, y).row.withdrawn
           /\ ~Thread!AddDashboardMessage(x, y).row.notice
           /\ Thread!AddDashboardMessage(x, y).row.thread = x
           /\ Thread!AddDashboardMessage(x, y).row.direction = y
           /\ AddNotice(a).do = "add" /\ AddNotice(a).row \in AnyRow
           /\ AddNotice(a).row.queue = 0 /\ ~AddNotice(a).row.withdrawn
           /\ AddNotice(a).row.notice /\ AddNotice(a).row.thread = Thread!Inbox(a)
           /\ AddNotice(a).row.direction = "to_agent"
  <1>1. Thread!Inbox(a) \in Thread!ThreadName /\ 0 \in Nat
        /\ "to_agent" \in {"to_agent", "from_agent"}
    BY DEF Thread!ThreadName
  <1>2. FALSE \in BOOLEAN /\ TRUE \in BOOLEAN
    OBVIOUS
  <1>3. [thread |-> x, direction |-> y, queue |-> 0, withdrawn |-> FALSE, notice |-> FALSE]
          \in AnyRow
    BY <1>1, <1>2, WrittenRow, Zenon DEF AnyRow
  <1>4. [thread |-> Thread!Inbox(a), direction |-> "to_agent", queue |-> 0,
         withdrawn |-> FALSE, notice |-> TRUE] \in AnyRow
    BY <1>1, <1>2, WrittenRow, Zenon DEF AnyRow
  <1> QED
    BY <1>3, <1>4 DEF AddNotice, Thread!AddNotice, Thread!AddDashboardMessage

(* The three rows that handlers add.                                       *)
LEMMA RowsOfAgent ==
    ASSUME NEW a \in Agent
    PROVE  /\ \A s \in {AddTo(a), AddFrom(a), AddOutbound(a), AddNotice(a)} :
                /\ s.do = "add" /\ s.row \in AnyRow /\ s.row.queue = 0 /\ ~s.row.withdrawn
           /\ \A s \in {AddTo(a), AddFrom(a), AddOutbound(a)} : ~s.row.notice
           /\ AddNotice(a).row.notice
           /\ \A s \in {AddTo(a), AddFrom(a), AddNotice(a)} : s.row.thread = Thread!Inbox(a)
           /\ AddOutbound(a).row.thread = Thread!Outbound(a)
           /\ AddTo(a).row.direction = "to_agent" /\ AddNotice(a).row.direction = "to_agent"
           /\ AddFrom(a).row.direction = "from_agent"
           /\ AddOutbound(a).row.direction = "from_agent"
  <1>1. Thread!Inbox(a) \in Thread!ThreadName /\ Thread!Outbound(a) \in Thread!ThreadName
    BY DEF Thread!ThreadName
  <1> QED
    BY <1>1, RowsAdded DEF AddTo, AddFrom, AddOutbound

(* Statements that are not "add".                                          *)
LEMMA OtherStatements ==
    ASSUME NEW a, NEW n
    PROVE  /\ Enqueue(a).do = "enqueue" /\ EnqueueFrom(n, a).do = "enqueue"
           /\ Enqueue(a).new = [from |-> None, to |-> a, report |-> FALSE, status |-> "pending"]
           /\ EnqueueFrom(n, a).new = [from |-> n, to |-> a, report |-> FALSE,
                                       status |-> "pending"]
           /\ LinkRow.do = "link"
           /\ Thread!WithdrawMessage(n).do = "withdraw" /\ Thread!WithdrawMessage(n).id = n
           /\ Thread!CancelPendingMessage(n).do = "cancel"
           /\ Thread!CancelPendingMessage(n).entry = n
  BY DEF Enqueue, EnqueueFrom, LinkRow, Thread!EnqueueMessage, Thread!LinkDashboardMessageToQueue,
         Thread!WithdrawMessage, Thread!CancelPendingMessage

(* Adding a row changes no entry.                                          *)
LEMMA RowExecuted ==
    ASSUME Thread!Execute, Head(threadsTodo).do = "add"
    PROVE  /\ rows' = Append(rows, Head(threadsTodo).row)
           /\ UNCHANGED <<queue, attempts, accepted, threadsHeld, threadsSpoiled, reader>>
           /\ threadsTodo' = Tail(threadsTodo)
  BY Executed

(* Adding an entry changes no row.                                         *)
LEMMA EntryExecuted ==
    ASSUME Thread!Execute, NEW a \in Agent, NEW b \in Agent,
           Head(threadsTodo) \in {Enqueue(a), EnqueueFrom(b, a)}
    PROVE  /\ \E e \in Thread!Entry : e.to = a /\ queue' = Append(queue, e)
           /\ UNCHANGED <<rows, attempts, accepted, threadsHeld, threadsSpoiled, reader>>
           /\ threadsTodo' = Tail(threadsTodo)
  <1> DEFINE s == Head(threadsTodo)
             e == [from |-> None, to |-> a, report |-> FALSE, status |-> "pending"]
             f == [from |-> b, to |-> a, report |-> FALSE, status |-> "pending"]
  <1>a. e \in Thread!Entry /\ f \in Thread!Entry /\ e.to = a /\ f.to = a
    BY DEF Thread!Entry
  <1>b. s.do = "enqueue" /\ s.new \in {e, f}
    BY OtherStatements
  <1> HIDE DEF s, e, f
  <1>1. s.do = "enqueue" /\ s.new \in Thread!Entry /\ s.new.to = a
    BY <1>a, <1>b
  <1> QED
    BY <1>1, Executed DEF s

(* An entry that is cancelled is held, unless an attempt has begun.        *)
LEMMA CancelExecuted ==
    ASSUME Thread!Execute, NEW q, NEW s, Head(threadsTodo) = s, s.do = "cancel", s.entry = q
    PROVE  /\ UNCHANGED <<rows, attempts, accepted, threadsSpoiled, reader>>
           /\ threadsTodo' = Tail(threadsTodo)
           /\ \/ /\ queue' = [queue EXCEPT ![q].status = "failed"]
                 /\ threadsHeld' \subseteq threadsHeld \cup ({q} \ attempts)
              \/ queue[q].status # "pending" /\ UNCHANGED <<queue, threadsHeld>>
  BY Executed

(* The last row after one was added.                                       *)
LEMMA LastAdded ==
    ASSUME ThreadType, NEW r \in AnyRow, rows' = Append(rows, r)
    PROVE  NewRow' \in DOMAIN rows' /\ rows' # <<>> /\ rows'[NewRow'] = r
  <1>1. rows \in Seq(AnyRow)
    BY DEF ThreadType
  <1> QED
    BY <1>1 DEF NewRow

(* The handler adds the row of a message from the dashboard, ...           *)
LEMMA SendsRow ==
    ASSUME ThreadsInv, Thread!Execute, NEW a \in Agent,
           threadsTodo = <<AddTo(a), Enqueue(a), LinkRow>>
    PROVE  ThreadsInv'
  <1> DEFINE t == threadsTodo
             u == threadsTodo'
             r == AddTo(a).row
  <1>1. /\ r \in AnyRow /\ r.queue = 0 /\ ~r.withdrawn /\ ~r.notice
        /\ r.thread = Thread!Inbox(a) /\ r.direction = "to_agent" /\ AddTo(a).do = "add"
    BY RowsOfAgent
  <1>2. /\ rows' = Append(rows, r)
        /\ UNCHANGED <<queue, attempts, accepted, threadsHeld, threadsSpoiled, reader>>
        /\ u = <<Enqueue(a), LinkRow>>
    <2>1. Head(threadsTodo) = AddTo(a) /\ Tail(threadsTodo) = <<Enqueue(a), LinkRow>>
      OBVIOUS
    <2>2. Head(threadsTodo).do = "add" /\ Head(threadsTodo).row = r
      BY <1>1, <2>1
    <2> QED
      BY <2>1, <2>2, RowExecuted, Zenon
  <1>3. Len(t) = 3 /\ t[1].do = "add" /\ ~t[1].row.notice /\ t[1].row.thread = Thread!Inbox(a)
    BY <1>1
  <1>4. Len(u) = 2 /\ u[1].do = "enqueue" /\ OwesEntry(u, a)
    BY <1>2, OtherStatements DEF OwesEntry
  <1>5. TodoIs'
    <2>1. LastRowIsOf(a)'
      BY <1>1, <1>2, LastAdded DEF LastRowIsOf, ThreadsInv
    <2> QED
      BY <1>4, <2>1 DEF TodoIs
  <1> HIDE DEF t, u, r
  <1>6. /\ ~Fresh(t) /\ ~Rowless(t) /\ \A b : ~OwesNotice(t, b) /\ ~OwesOutbound(t, b)
    BY <1>3, Stages DEF Fresh, Rowless
  <1>7. Fresh(u) /\ \A b : ~OwesOutbound(u, b) /\ \A n : ~OwesWithdrawal(u, n, b)
    BY <1>4, Stages DEF Fresh
  <1>8. \A b : r.thread # Thread!Outbound(b)
    BY <1>1, ThreadsApart
  <1> QED
    BY <1>1, <1>2, <1>5, <1>6, <1>7, <1>8, AddRow DEF t, u

(* ... a row that has no entry, ...                                        *)
LEMMA RepliesRow ==
    ASSUME ThreadsInv, Thread!Execute, NEW a \in Agent,
           threadsTodo = <<AddFrom(a)>> \/ threadsTodo = <<AddOutbound(a)>>
    PROVE  ThreadsInv'
  <1> DEFINE t == threadsTodo
             u == threadsTodo'
             r == Head(threadsTodo).row
  <1>1. /\ r \in AnyRow /\ r.queue = 0 /\ ~r.withdrawn /\ ~r.notice
        /\ r.direction = "from_agent" /\ Head(t).do = "add"
    BY RowsOfAgent
  <1>2. /\ rows' = Append(rows, r)
        /\ UNCHANGED <<queue, attempts, accepted, threadsHeld, threadsSpoiled, reader>>
        /\ u = <<>>
    <2>1. Tail(threadsTodo) = <<>>
      <3>1. \A s : Tail(<<s>>) = <<>>
        OBVIOUS
      <3> QED
        BY <3>1, Zenon
    <2> QED
      BY <1>1, <2>1, RowExecuted, Zenon
  <1>3. Len(t) = 1 /\ t[1].do = "add"
    BY <1>1
  <1>4. TodoIs'
    BY <1>2 DEF TodoIs
  <1>5. \A b \in Agent : OwesOutbound(t, b) <=> r.thread = Thread!Outbound(b)
    <2>1. CASE t = <<AddFrom(a)>>
      <3>1. r.thread = Thread!Inbox(a) /\ t[1].row.thread = Thread!Inbox(a)
        BY <2>1, RowsOfAgent
      <3> HIDE DEF t, r
      <3> QED
        BY <3>1, Stages, ThreadsApart
    <2>2. CASE t = <<AddOutbound(a)>>
      <3>1. r.thread = Thread!Outbound(a) /\ t[1].row.thread = Thread!Outbound(a)
        BY <2>2, RowsOfAgent
      <3>2. OwesOutbound(t, a)
        BY <2>2 DEF OwesOutbound
      <3> HIDE DEF t, r
      <3> QED
        BY <3>1, <3>2, Stages, ThreadsApart
    <2> QED
      BY <2>1, <2>2
  <1>6. u = <<>>
    BY <1>2
  <1> HIDE DEF t, u, r
  <1>7. /\ ~Fresh(t) /\ ~Rowless(t) /\ \A b : ~OwesNotice(t, b)
    BY <1>3, Stages DEF Fresh, Rowless
  <1>8. \A b : ~OwesOutbound(u, b) /\ \A n : ~OwesWithdrawal(u, n, b)
    BY <1>6, NothingLeft
  <1>9. ~(r.direction = "to_agent")
    BY <1>1
  <1> QED
    BY <1>1, <1>2, <1>4, <1>5, <1>7, <1>8, <1>9, AddRow DEF t, u

(* ... the two rows of a message between agents, ...                       *)
LEMMA SenderRow ==
    ASSUME ThreadsInv, Thread!Execute, NEW a \in Agent, NEW b \in Agent, LastEntryIsOf(a),
           threadsTodo = <<AddFrom(b), LinkRow, AddTo(a), LinkRow>>
    PROVE  ThreadsInv'
  <1> DEFINE t == threadsTodo
             u == threadsTodo'
             r == AddFrom(b).row
  <1>1. /\ r \in AnyRow /\ r.queue = 0 /\ ~r.withdrawn /\ ~r.notice
        /\ r.thread = Thread!Inbox(b) /\ r.direction = "from_agent" /\ AddFrom(b).do = "add"
    BY RowsOfAgent
  <1>2. /\ rows' = Append(rows, r)
        /\ UNCHANGED <<queue, attempts, accepted, threadsHeld, threadsSpoiled, reader>>
        /\ u = <<LinkRow, AddTo(a), LinkRow>>
    <2>1. Head(threadsTodo) = AddFrom(b) /\ Tail(threadsTodo) = <<LinkRow, AddTo(a), LinkRow>>
      OBVIOUS
    <2>2. Head(threadsTodo).do = "add" /\ Head(threadsTodo).row = r
      BY <1>1, <2>1
    <2> QED
      BY <2>1, <2>2, RowExecuted, Zenon
  <1>3. Len(t) = 4 /\ t[1].do = "add"
    BY <1>1
  <1>4. Len(u) = 3 /\ u[1].do = "link" /\ OwesLinkAndRow(u, a)
    BY <1>2, OtherStatements DEF OwesLinkAndRow
  <1>5. TodoIs'
    <2>1. /\ rows' # <<>> /\ ~rows'[NewRow'].withdrawn /\ rows'[NewRow'].direction = "from_agent"
          /\ LastEntryIsOf(a)'
      BY <1>1, <1>2, LastAdded DEF LastEntryIsOf, NewEntry, ThreadsInv
    <2> QED
      BY <1>4, <2>1 DEF TodoIs
  <1> HIDE DEF t, u, r
  <1>6. /\ ~Fresh(t) /\ \A c : ~OwesNotice(t, c) /\ ~OwesOutbound(t, c)
    BY <1>3, Stages DEF Fresh
  <1>7. Rowless(u) /\ \A c : ~OwesOutbound(u, c) /\ \A n : ~OwesWithdrawal(u, n, c)
    BY <1>4, Stages DEF Rowless
  <1>8. /\ \A c : r.thread # Thread!Outbound(c)
        /\ ~(r.direction = "to_agent")
    BY <1>1, ThreadsApart
  <1> QED
    BY <1>1, <1>2, <1>5, <1>6, <1>7, <1>8, AddRow DEF t, u

(* (the second, to the agent that gets it,)                                *)
LEMMA ReceiverRow ==
    ASSUME ThreadsInv, Thread!Execute, NEW a \in Agent, LastEntryIsOf(a),
           threadsTodo = <<AddTo(a), LinkRow>>
    PROVE  ThreadsInv'
  <1> DEFINE t == threadsTodo
             u == threadsTodo'
             r == AddTo(a).row
  <1>1. /\ r \in AnyRow /\ r.queue = 0 /\ ~r.withdrawn /\ ~r.notice
        /\ r.thread = Thread!Inbox(a) /\ r.direction = "to_agent" /\ AddTo(a).do = "add"
    BY RowsOfAgent
  <1>2. /\ rows' = Append(rows, r)
        /\ UNCHANGED <<queue, attempts, accepted, threadsHeld, threadsSpoiled, reader>>
        /\ u = <<LinkRow>>
    <2>1. Head(threadsTodo) = AddTo(a) /\ Tail(threadsTodo) = <<LinkRow>>
      OBVIOUS
    <2>2. Head(threadsTodo).do = "add" /\ Head(threadsTodo).row = r
      BY <1>1, <2>1
    <2> QED
      BY <2>1, <2>2, RowExecuted, Zenon
  <1>3. Len(t) = 2 /\ t[1].do = "add"
    BY <1>1
  <1>4. Len(u) = 1 /\ u[1].do = "link" /\ OwesLink(u)
    BY <1>2, OtherStatements DEF OwesLink
  <1>5. TodoIs'
    <2>1. LastRowIsOf(a)'
      BY <1>1, <1>2, LastAdded DEF LastRowIsOf, ThreadsInv
    <2>2. LastEntryIsOf(a)'
      BY <1>2 DEF LastEntryIsOf, NewEntry
    <2> QED
      BY <1>4, <2>1, <2>2 DEF TodoIs
  <1> HIDE DEF t, u, r
  <1>6. /\ ~Fresh(t) /\ \A b : ~OwesNotice(t, b) /\ ~OwesOutbound(t, b)
    BY <1>3, Stages DEF Fresh
  <1>7. /\ Fresh(u) /\ OwesLink(u)
        /\ \A b : ~OwesOutbound(u, b) /\ \A n : ~OwesWithdrawal(u, n, b)
    BY <1>4, Stages DEF Fresh
  <1>8. \A b : r.thread # Thread!Outbound(b)
    BY <1>1, ThreadsApart
  <1> QED
    BY <1>1, <1>2, <1>5, <1>6, <1>7, <1>8, AddRow DEF t, u

(* ... and the notice of a withdrawal.                                     *)
LEMMA NoticeRow ==
    ASSUME ThreadsInv, Thread!Execute, NEW a \in Agent,
           threadsTodo = <<AddNotice(a), Enqueue(a), LinkRow>>
    PROVE  ThreadsInv'
  <1> DEFINE t == threadsTodo
             u == threadsTodo'
             r == AddNotice(a).row
  <1>1. /\ r \in AnyRow /\ r.queue = 0 /\ ~r.withdrawn /\ r.notice
        /\ r.thread = Thread!Inbox(a) /\ r.direction = "to_agent" /\ AddNotice(a).do = "add"
    BY RowsOfAgent
  <1>2. /\ rows' = Append(rows, r)
        /\ UNCHANGED <<queue, attempts, accepted, threadsHeld, threadsSpoiled, reader>>
        /\ u = <<Enqueue(a), LinkRow>>
    <2>1. Head(threadsTodo) = AddNotice(a) /\ Tail(threadsTodo) = <<Enqueue(a), LinkRow>>
      OBVIOUS
    <2>2. Head(threadsTodo).do = "add" /\ Head(threadsTodo).row = r
      BY <1>1, <2>1
    <2> QED
      BY <2>1, <2>2, RowExecuted, Zenon
  <1>3. Len(t) = 3 /\ t[1].do = "add" /\ t[1].row.thread = Thread!Inbox(a)
    BY <1>1
  <1>4. Len(u) = 2 /\ u[1].do = "enqueue" /\ OwesEntry(u, a)
    BY <1>2, OtherStatements DEF OwesEntry
  <1>5. TodoIs'
    <2>1. LastRowIsOf(a)'
      BY <1>1, <1>2, LastAdded DEF LastRowIsOf, ThreadsInv
    <2> QED
      BY <1>4, <2>1 DEF TodoIs
  <1> HIDE DEF t, u, r
  <1>6. /\ ~Fresh(t) /\ ~Rowless(t)
        /\ \A b : ~OwesOutbound(t, b) /\ (OwesNotice(t, b) => b = a)
    BY <1>3, Stages, ThreadsApart DEF Fresh, Rowless
  <1>7. Fresh(u) /\ \A b : ~OwesOutbound(u, b) /\ \A n : ~OwesWithdrawal(u, n, b)
    BY <1>4, Stages DEF Fresh
  <1>8. \A b : r.thread # Thread!Outbound(b)
    BY <1>1, ThreadsApart
  <1> QED
    BY <1>1, <1>2, <1>4, <1>5, <1>6, <1>7, <1>8, AddRow DEF t, u

(* A handler adds an entry that has its row, or is to have one.            *)
LEMMA EntryStep ==
    ASSUME ThreadsInv, Thread!Execute, NEW a \in Agent,
           \/ \E b \in Agent :
                 threadsTodo = <<EnqueueFrom(b, a), AddFrom(b), LinkRow, AddTo(a), LinkRow>>
           \/ OwesEntry(threadsTodo, a) /\ LastRowIsOf(a)
    PROVE  ThreadsInv'
  <1> DEFINE t == threadsTodo
             u == threadsTodo'
  <1>1. /\ t # <<>> /\ t[1].do = "enqueue" /\ Len(t) \in {2, 5}
        /\ \E b \in Agent : Head(t) \in {Enqueue(a), EnqueueFrom(b, a)}
    <2>1. CASE OwesEntry(t, a)
      <3>1. Len(t) = 2 /\ t # <<>> /\ t[1] = Enqueue(a) /\ Head(t) = Enqueue(a)
        BY <2>1 DEF OwesEntry
      <3>2. Enqueue(a).do = "enqueue"
        BY OtherStatements
      <3> HIDE DEF t
      <3>3. t[1].do = "enqueue"
        BY <3>1, <3>2
      <3> QED
        BY <3>1, <3>3
    <2>2. ASSUME NEW b \in Agent, t = <<EnqueueFrom(b, a), AddFrom(b), LinkRow, AddTo(a), LinkRow>>
          PROVE  /\ t # <<>> /\ t[1].do = "enqueue" /\ Len(t) \in {2, 5}
                 /\ Head(t) = EnqueueFrom(b, a)
      <3>1. Len(t) = 5 /\ t # <<>> /\ t[1] = EnqueueFrom(b, a) /\ Head(t) = EnqueueFrom(b, a)
        BY <2>2
      <3>2. EnqueueFrom(b, a).do = "enqueue"
        BY OtherStatements
      <3> HIDE DEF t
      <3>3. t[1].do = "enqueue"
        BY <3>1, <3>2
      <3> QED
        BY <3>1, <3>3
    <2> QED
      BY <2>1, <2>2
  <1>2. PICK e \in Thread!Entry :
          /\ e.to = a /\ queue' = Append(queue, e)
          /\ UNCHANGED <<rows, attempts, accepted, threadsHeld, threadsSpoiled, reader>>
          /\ u = Tail(t)
    BY <1>1, EntryExecuted
  <1>3. t[1].do = "enqueue"
    BY <1>1
  <1>4. LastEntryIsOf(a)'
    BY <1>2, AppendedEntry DEF LastEntryIsOf
  <1>5. /\ \/ OwesLink(u) /\ Fresh(t)
           \/ ~Fresh(t) /\ OwesRow(u, a)
        /\ TodoIs'
    <2>1. CASE OwesEntry(t, a) /\ LastRowIsOf(a)
      <3>1. OwesLink(u) /\ Fresh(t)
        BY <1>2, <2>1 DEF OwesEntry, OwesLink, Fresh
      <3>2. LastRowIsOf(a)'
        BY <1>2, <2>1 DEF LastRowIsOf, NewRow
      <3> QED
        BY <1>4, <3>1, <3>2 DEF TodoIs
    <2>2. ASSUME NEW b \in Agent, t = <<EnqueueFrom(b, a), AddFrom(b), LinkRow, AddTo(a), LinkRow>>
          PROVE  ~Fresh(t) /\ OwesRow(u, a) /\ TodoIs'
      <3>1. OwesRow(u, a)
        BY <1>2, <2>2 DEF OwesRow
      <3>2. TodoIs'
        BY <1>4, <3>1 DEF TodoIs
      <3>3. Len(t) = 5
        BY <2>2
      <3> HIDE DEF t
      <3>4. ~Fresh(t)
        BY <3>3, Stages DEF Fresh
      <3> QED
        BY <3>1, <3>2, <3>4
    <2> QED
      BY <2>1, <2>2
  <1> HIDE DEF t, u
  <1>6. /\ ~OwesLink(t) /\ ~Rowless(t) /\ \A b : ~OwesNotice(t, b) /\ ~OwesOutbound(t, b)
    BY <1>3, Stages DEF Rowless
  <1> QED
    BY <1>2, <1>5, <1>6, AddEntry DEF t, u

(* Every statement of a handler keeps the threads true.                    *)
LEMMA ExecuteStep == ASSUME ThreadsInv, Thread!Execute PROVE ThreadsInv'
  <1>1. threadsTodo # <<>> /\ TodoIs
    BY DEF Thread!Execute, Thread!Quiet, ThreadsInv
  <1>2. PICK a \in Agent :
          \/ Begins(threadsTodo, a) \/ OwesNotice(threadsTodo, a) \/ OwesOutbound(threadsTodo, a)
          \/ OwesReport(threadsTodo, a)
          \/ OwesRow(threadsTodo, a) /\ LastEntryIsOf(a)
          \/ /\ OwesLinkAndRow(threadsTodo, a) /\ LastEntryIsOf(a)
             /\ rows # <<>> /\ ~rows[NewRow].withdrawn /\ rows[NewRow].direction = "from_agent"
          \/ OwesEntry(threadsTodo, a) /\ LastRowIsOf(a)
          \/ OwesLink(threadsTodo) /\ LastRowIsOf(a) /\ LastEntryIsOf(a)
          \/ \E n \in DOMAIN rows :
                /\ rows[n].thread = Thread!Inbox(a) /\ rows[n].direction = "to_agent"
                /\ \/ OwesWithdrawal(threadsTodo, n, a)
                   \/ OwesCancel(threadsTodo, rows[n].queue, n, a) /\ rows[n].queue # 0
    BY <1>1 DEF TodoIs
  <1>3. CASE Begins(threadsTodo, a)
    BY <1>3, EntryStep, SendsRow, RepliesRow DEF Begins
  <1>4. CASE OwesNotice(threadsTodo, a)
    BY <1>4, NoticeRow DEF OwesNotice
  <1>5. CASE OwesOutbound(threadsTodo, a) \/ OwesReport(threadsTodo, a)
    BY <1>5, RepliesRow, ReportStep DEF OwesOutbound
  <1>6. CASE OwesRow(threadsTodo, a) /\ LastEntryIsOf(a)
    BY <1>6, SenderRow, ReceiverRow DEF OwesRow
  <1>7. CASE OwesEntry(threadsTodo, a) /\ LastRowIsOf(a)
    BY <1>7, EntryStep
  <1>8. CASE /\ OwesLinkAndRow(threadsTodo, a) /\ LastEntryIsOf(a)
             /\ rows # <<>> /\ ~rows[NewRow].withdrawn /\ rows[NewRow].direction = "from_agent"
    <2>1. Head(threadsTodo) = LinkRow /\ Tail(threadsTodo) = <<AddTo(a), LinkRow>>
      BY <1>8 DEF OwesLinkAndRow
    <2>2. /\ rows' = [rows EXCEPT ![NewRow].queue = NewEntry]
          /\ UNCHANGED <<queue, attempts, accepted, threadsHeld, threadsSpoiled, reader>>
          /\ threadsTodo' = <<AddTo(a), LinkRow>>
      BY <2>1, Executed, OtherStatements
    <2>3. OwesRow(threadsTodo', a) /\ LastEntryIsOf(a)'
      BY <1>8, <2>2 DEF OwesRow, LastEntryIsOf, NewEntry
    <2>4. TodoIs'
      BY <2>3 DEF TodoIs
    <2> QED
      BY <1>8, <2>2, <2>4, LinkStep DEF LastEntryIsOf
  <1>9. CASE OwesLink(threadsTodo) /\ LastRowIsOf(a) /\ LastEntryIsOf(a)
    <2>1. Head(threadsTodo) = LinkRow /\ Tail(threadsTodo) = <<>>
      BY <1>9 DEF OwesLink
    <2>2. /\ rows' = [rows EXCEPT ![NewRow].queue = NewEntry]
          /\ UNCHANGED <<queue, attempts, accepted, threadsHeld, threadsSpoiled, reader>>
          /\ threadsTodo' = <<>>
      BY <2>1, Executed, OtherStatements
    <2>3. TodoIs'
      BY <2>2 DEF TodoIs
    <2>4. rows # <<>> /\ ~rows[NewRow].withdrawn /\ queue # <<>>
      BY <1>9 DEF LastRowIsOf, LastEntryIsOf
    <2> QED
      BY <1>9, <2>2, <2>3, <2>4, LinkStep
  <1>10. ASSUME NEW n \in DOMAIN rows, rows[n].thread = Thread!Inbox(a),
                rows[n].direction = "to_agent", OwesWithdrawal(threadsTodo, n, a)
         PROVE  ThreadsInv'
    <2>1. /\ Head(threadsTodo) = Thread!WithdrawMessage(n)
          /\ Tail(threadsTodo) = <<AddNotice(a), Enqueue(a), LinkRow>>
      BY <1>10 DEF OwesWithdrawal
    <2>2. /\ rows' = [rows EXCEPT ![n].withdrawn = TRUE]
          /\ UNCHANGED <<queue, attempts, accepted, threadsHeld, threadsSpoiled, reader>>
          /\ threadsTodo' = <<AddNotice(a), Enqueue(a), LinkRow>>
      <3> DEFINE s == Thread!WithdrawMessage(n)
      <3>1. s.do = "withdraw" /\ s.id = n /\ Head(threadsTodo) = s
        BY <2>1, OtherStatements
      <3> HIDE DEF s
      <3> QED
        BY <2>1, <3>1, Executed
    <2> QED
      BY <1>10, <2>2, WithdrawStep DEF OwesNotice
  <1>11. ASSUME NEW n \in DOMAIN rows, rows[n].thread = Thread!Inbox(a),
                rows[n].direction = "to_agent", rows[n].queue # 0,
                OwesCancel(threadsTodo, rows[n].queue, n, a)
         PROVE  ThreadsInv'
    <2> DEFINE s == Thread!CancelPendingMessage(rows[n].queue)
               rest == <<Thread!WithdrawMessage(n), AddNotice(a), Enqueue(a), LinkRow>>
    <2>1. Head(threadsTodo) = s /\ Tail(threadsTodo) = rest
      BY <1>11 DEF OwesCancel
    <2>2. s.do = "cancel" /\ s.entry = rows[n].queue
      BY OtherStatements
    <2> HIDE DEF s, rest
    <2>3. /\ UNCHANGED <<rows, attempts, accepted, threadsSpoiled, reader>>
          /\ threadsTodo' = rest
          /\ \/ /\ queue' = [queue EXCEPT ![rows[n].queue].status = "failed"]
                /\ threadsHeld' \subseteq threadsHeld \cup ({rows[n].queue} \ attempts)
             \/ queue[rows[n].queue].status # "pending" /\ UNCHANGED <<queue, threadsHeld>>
      BY <2>1, <2>2, CancelExecuted
    <2>4. OwesWithdrawal(threadsTodo', n, a)
      BY <2>3 DEF OwesWithdrawal, rest
    <2> QED
      BY <1>11, <2>3, <2>4, CancelStep
  <1> QED
    BY <1>2, <1>3, <1>4, <1>5, <1>6, <1>7, <1>8, <1>9, <1>10, <1>11

(* Threads agree with the queue and are read whole, for any agents, size   *)
(* of page and bounds: entries have their rows, withdrawn ones are settled *)
(* and told of, and no message is missed between two pages                 *)
(* (routes.ts:712-1087, database.ts:646-823).                              *)
THEOREM ThreadsStayTrue == ServerSpec => []ThreadsAreTrue
  <1>1. ServerInit => ThreadsInv
    <2> SUFFICES ASSUME Thread!Init PROVE ThreadsInv
      BY DEF ServerInit
    <2>1. ThreadType /\ TodoIs
      BY DEF Thread!Init, ThreadType, TodoIs, NewEntry
    <2>2. ReaderIsAhead
      BY DEF Thread!Init, ReaderIsAhead
    <2>3. EntriesShown /\ RowsLinked
      BY DEF Thread!Init, EntriesShown, RowsLinked
    <2>4. WithdrawnAreTold
      BY DEF Thread!Init, WithdrawnAreTold
    <2>5. AcceptedHaveRows
      <3>1. threadsTodo = <<>> /\ \A a \in Agent : Posted(a) = {} /\ accepted[a] = 0
        BY DEF Thread!Init, Posted
      <3> QED
        <4>1. \A a \in Agent : ~OwesOutbound(threadsTodo, a)
          BY <3>1, NothingLeft
        <4>2. \A a \in Agent : Cardinality(Posted(a)) = 0
          BY <3>1, FS_EmptySet, Zenon
        <4> QED
          BY <3>1, <4>1, <4>2 DEF AcceptedHaveRows
    <2> QED
      BY <2>1, <2>2, <2>3, <2>4, <2>5 DEF ThreadsInv, ThreadsKept
  <1>2. ThreadsInv /\ [ServerNext]_serverVars => ThreadsInv'
    <2> SUFFICES ASSUME ThreadsInv, [ServerNext]_serverVars PROVE ThreadsInv'
      OBVIOUS
    <2>1. CASE part = "threads" /\ ServerNext
      <3>1. Thread!Next
        BY <2>1 DEF ServerNext
      <3>2. ASSUME NEW n \in Thread!Ids, Thread!Withdraw(n) PROVE \E a \in Agent : TRUE
        <4>1. n \in DOMAIN rows /\ rows[n].direction = "to_agent"
          BY <3>2 DEF Thread!Withdraw
        <4> QED
          BY <4>1 DEF ThreadsInv, ThreadType
      <3>3. CASE \E q \in DOMAIN queue : \/ Thread!AttemptStarts(q) \/ Thread!AttemptSucceeds(q)
                                          \/ Thread!AttemptFails(q)
        BY <3>3, AttemptsStep
      <3> QED
        BY <3>1, <3>2, <3>3, ExecuteStep, ThreadsRestart, ReadsStep, RoutesStep DEF Thread!Next
    <2>2. CASE UNCHANGED threadsVars
      BY <2>2, SameThreads DEF threadsVars
    <2>3. CASE UNCHANGED serverVars
      BY <2>2, <2>3 DEF serverVars
    <2> QED
      BY <2>1, <2>2, <2>3 DEF ServerNext
  <1>3. ThreadsInv => ThreadsAreTrue
    <2> SUFFICES ASSUME ThreadsInv PROVE Thread!ThreadsShowTheQueue /\ Thread!HistoryIsWhole
      BY DEF ThreadsAreTrue, Thread!ThreadsAreTrue
    <2>1. Thread!HistoryIsWhole
      BY DEF ThreadsInv, ReaderIsAhead, IsAhead, Has, IsMessage, Thread!HistoryIsWhole
    <2>2. Thread!ThreadsShowTheQueue
      <3> SUFFICES ASSUME threadsTodo = <<>>, ThreadsKept PROVE Thread!ThreadsShowTheQueue
        BY DEF ThreadsInv, Thread!ThreadsShowTheQueue, Thread!Quiet
      <3>1. \A q \in DOMAIN queue : ~queue[q].report => HasRow(q)
        BY NothingLeft DEF ThreadsKept, EntriesShown
      <3>2. \A n \in DOMAIN rows : rows[n].withdrawn => ThreadSettled(n) /\ ThreadTold(n)
        BY NothingLeft DEF ThreadsKept, WithdrawnAreTold, WillBeTold
      <3>3. \A q \in threadsHeld : queue[q].status = "failed"
        BY DEF ThreadsInv, ThreadType
      <3>4. \A a \in Agent : accepted[a] = Thread!Cardinality(Posted(a))
        <4> SUFFICES ASSUME NEW a \in Agent PROVE accepted[a] = Cardinality(Posted(a))
          BY DEF Thread!Cardinality, Cardinality
        <4>1. Cardinality(Posted(a)) \in Nat
          BY PostedCount DEF ThreadsInv
        <4> QED
          BY <4>1, NothingLeft DEF ThreadsKept, AcceptedHaveRows
      <3>5. \A n \in DOMAIN rows : ThreadTold(n) =>
               \E m \in n + 1 .. Len(rows) : /\ rows[m].notice
                                             /\ rows[m].thread = rows[n].thread
                                             /\ rows[m].queue > rows[n].queue
        <4>1. rows \in Seq(AnyRow)
          BY DEF ThreadsInv, ThreadType
        <4>2. \A n, m \in DOMAIN rows : n < m => m \in n + 1 .. Len(rows)
          BY <4>1
        <4> QED
          BY <4>2 DEF ThreadTold
      <3> QED
        BY <3>1, <3>2, <3>3, <3>4, <3>5 DEF Thread!ThreadsShowTheQueue, HasRow, ThreadSettled, Posted
    <2> QED
      BY <2>1, <2>2
  <1> QED
    BY <1>1, <1>2, <1>3, PTL DEF ServerSpec
=============================================================================
