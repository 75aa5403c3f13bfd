----------------------------- MODULE Artifacts -----------------------------
(***************************************************************************)
(* What agents and users leave with the orchestrator: pages, data stores   *)
(* and files, each on disk and as a row (src/src/orchestrator/routes.ts:   *)
(* 1268-1803, database.ts), and uploads into an agent's directory through  *)
(* its proxy (routes.ts:875-952, src/src/proxy/main.ts:288-348).           *)
(*                                                                         *)
(* A handler is cut at its awaits: the body of a request, the import of    *)
(* child_process, the stream.  Between two awaits it runs alone, but the   *)
(* process may end between its step on disk and its step on the row.       *)
(***************************************************************************)
EXTENDS Integers, FiniteSets

CONSTANTS Req,     \* requests that may be in flight at a time
          Slug, Store, FileId, Path,
          Name,    \* names of files in a page
          None, MaxOp, MaxFault

VARIABLES pageDir,    \* pageDir[s]: names in the directory of the page, or None
          pageRow,    \* pageRow[s]: file_count of the row, or None
          storeFile,  \* storeFile[s]: "none", "small", or "over" the limit
          storeRow,   \* stores with a row
          onDisk,     \* files on disk
          fileRow,    \* files with a row
          target,     \* target[p]: "none", "partial", "whole", or "any" where uploads overlap
          told,       \* told[p]: answer to the last upload to p, None from its start
          req,        \* req[r]: request that waits for something, or None
          row,        \* the row that the running handler will write, or None
          spoiled,    \* history: things whose row was not written
          ops, faults

vars == <<pageDir, pageRow, storeFile, storeRow, onDisk, fileRow, target, told, req, row,
          spoiled, ops, faults>>

disk == <<pageDir, storeFile, onDisk>>
rows == <<pageRow, storeRow, fileRow>>
uploads == <<target, told>>

Request == [kind : {"page"}, name : Slug, at : {"body", "extract"}]
           \cup [kind : {"query"}, name : Store, at : {"body"}]
           \cup [kind : {"file"}, name : {None}, at : {"body"}]
           \cup [kind : {"upload"}, name : Path, at : {"body"}]
Row == [kind : {"page"}, name : Slug, value : Nat \cup {None}]
       \cup [kind : {"store"}, name : Store, value : {TRUE, None}]
       \cup [kind : {"file"}, name : FileId, value : {TRUE, None}]

(* spoiled has the names of all kinds.                                     *)
ArtifactsAssumption ==
    /\ Slug \cap Store = {} /\ Slug \cap FileId = {} /\ Store \cap FileId = {}
    /\ IsFiniteSet(Name)
    /\ None \notin Request /\ None \notin Row /\ \A S \in SUBSET Name : None # S
    /\ None \notin {"ok", "failed"} /\ None # TRUE

-----------------------------------------------------------------------------
Idle == [r \in Req |-> None]
At(r, kind, at) == row = None /\ req[r] # None /\ req[r].kind = kind /\ req[r].at = at
Respond(r) == req' = [req EXCEPT ![r] = None]

Start(r, kind, name) ==
    /\ row = None /\ req[r] = None /\ ops < MaxOp
    /\ ops' = ops + 1
    /\ req' = [req EXCEPT ![r] = [kind |-> kind, name |-> name, at |-> "body"]]
    /\ UNCHANGED <<disk, rows, row, spoiled, faults>>

(* A handler that awaits nothing.                                          *)
AtOnce == row = None /\ ops < MaxOp /\ ops' = ops + 1 /\ UNCHANGED req

(* The disk was changed: the row is next.                                  *)
RowIsNext(kind, name, value) == row' = [kind |-> kind, name |-> name, value |-> value]

(* The body is too large or the client is gone: nothing was touched yet.   *)
Abort(r) ==
    /\ \E kind \in {"page", "query", "file"} : At(r, kind, "body")
    /\ Respond(r)
    /\ UNCHANGED <<disk, rows, uploads, row, spoiled, ops, faults>>

-----------------------------------------------------------------------------
(* Pages                                                                   *)

StartPublish(r, s) == Start(r, "page", s) /\ UNCHANGED uploads

Made(s) == IF pageDir[s] = None THEN {} ELSE pageDir[s]

(* Files are added to what is there; the row gets the count of all.        *)
Publish(s, new) ==
    /\ pageDir' = [pageDir EXCEPT ![s] = Made(s) \cup new]
    /\ RowIsNext("page", s, Cardinality(Made(s) \cup new))

(* The directory is made before the file is written.  If that fails (its   *)
(* name has a directory that is not there, the disk is full), the handler  *)
(* ends there, with the directory and perhaps a part of the file.          *)
Unwritten(s, left) ==
    /\ pageDir' = [pageDir EXCEPT ![s] = Made(s) \cup left]
    /\ spoiled' = IF pageDir[s] = Made(s) \cup left THEN spoiled ELSE spoiled \cup {s}
    /\ UNCHANGED row

(* The name is joined to the directory as it came: "../t/n" is a file of   *)
(* page t, if there is one, and the row that is written is that of s.      *)
Strays(s, t, n) ==
    /\ t # s /\ pageDir[t] # None
    /\ pageDir' = [pageDir EXCEPT ![s] = Made(s), ![t] = @ \cup {n}]
    /\ spoiled' = IF n \in pageDir[t] THEN spoiled ELSE spoiled \cup {t}
    /\ RowIsNext("page", s, Cardinality(Made(s)))

PublishFile(r) ==
    /\ At(r, "page", "body")
    /\ LET s == req[r].name
       IN \/ \E n \in Name : Publish(s, {n}) /\ UNCHANGED spoiled
          \/ \E left \in {{}} \cup {{n} : n \in Name} : Unwritten(s, left)
          \/ \E t \in Slug, n \in Name : Strays(s, t, n)
    /\ Respond(r)
    /\ UNCHANGED <<storeFile, onDisk, rows, uploads, ops, faults>>

(* For an archive the directory is made, and then an import awaited.       *)
PublishTar(r) ==
    /\ At(r, "page", "body")
    /\ pageDir' = [pageDir EXCEPT ![req[r].name] = Made(req[r].name)]
    /\ req' = [req EXCEPT ![r].at = "extract"]
    /\ UNCHANGED <<storeFile, onDisk, rows, uploads, row, spoiled, ops, faults>>

(* Without its directory tar does not start; an archive that is broken may *)
(* leave files that no row tells of.                                       *)
Extract(r) ==
    /\ At(r, "page", "extract")
    /\ LET s == req[r].name
       IN \/ pageDir[s] = None /\ UNCHANGED <<pageDir, row, spoiled>>
          \/ /\ pageDir[s] # None
             /\ \E new \in SUBSET Name :
                   \/ Publish(s, new) /\ UNCHANGED spoiled
                   \/ /\ pageDir' = [pageDir EXCEPT ![s] = @ \cup new]
                      /\ spoiled' = spoiled \cup {s} /\ UNCHANGED row
    /\ Respond(r)
    /\ UNCHANGED <<storeFile, onDisk, rows, uploads, ops, faults>>

DeletePage(s) ==
    /\ AtOnce
    /\ pageDir' = [pageDir EXCEPT ![s] = None]
    /\ RowIsNext("page", s, None)
    /\ UNCHANGED <<storeFile, onDisk, rows, uploads, spoiled, faults>>

-----------------------------------------------------------------------------
(* Data stores                                                             *)

OpensUnchecked(s, sizes) ==                                       \* mutant
    LET made == IF storeFile[s] = "none" THEN "small" ELSE storeFile[s]
    IN \E z \in sizes \cup {made} : storeFile' = [storeFile EXCEPT ![s] = z]

(* Opening a database would make its file: a query opens one that exists.  *)
RunOn(s, sizes) ==
    IF storeFile[s] = "none" THEN UNCHANGED storeFile
    ELSE \E z \in sizes \cup {storeFile[s]} : storeFile' = [storeFile EXCEPT ![s] = z]

CreateStore(s) ==
    /\ AtOnce
    /\ storeFile' = [storeFile EXCEPT ![s] = IF @ = "none" THEN "small" ELSE @]
    /\ RowIsNext("store", s, TRUE)
    /\ UNCHANGED <<pageDir, onDisk, rows, uploads, spoiled, faults>>

(* The row is looked up before the body of the query is read.              *)
StartQuery(r, s) == s \in storeRow /\ Start(r, "query", s) /\ UNCHANGED uploads

(* A store over its limit is only read: a statement that would make it     *)
(* smaller is refused as well.  One statement may pass the limit.          *)
RunQuery(r) ==
    /\ At(r, "query", "body")
    /\ LET s == req[r].name
       IN \/ RunOn(s, {})
          \/ storeFile[s] # "over" /\ RunOn(s, {"over"})
    /\ Respond(r)
    /\ UNCHANGED <<pageDir, onDisk, rows, uploads, row, spoiled, ops, faults>>

DeleteStore(s) ==
    /\ AtOnce
    /\ storeFile' = [storeFile EXCEPT ![s] = "none"]
    /\ RowIsNext("store", s, None)
    /\ UNCHANGED <<pageDir, onDisk, rows, uploads, spoiled, faults>>

-----------------------------------------------------------------------------
(* Files                                                                   *)

StartAdd(r) == Start(r, "file", None) /\ UNCHANGED uploads

AddFile(r) ==
    /\ At(r, "file", "body")
    /\ \E f \in FileId \ (onDisk \cup fileRow) :
          onDisk' = onDisk \cup {f} /\ RowIsNext("file", f, TRUE)
    /\ Respond(r)
    /\ UNCHANGED <<pageDir, storeFile, rows, uploads, spoiled, ops, faults>>

DeleteFile(f) ==
    /\ f \in fileRow /\ AtOnce
    /\ onDisk' = onDisk \ {f} /\ RowIsNext("file", f, None)
    /\ UNCHANGED <<pageDir, storeFile, rows, uploads, spoiled, faults>>

-----------------------------------------------------------------------------
(* The rows, and the end of the process                                    *)

Changed(set) == IF row.value = None THEN set \ {row.name} ELSE set \cup {row.name}

WriteRow ==
    /\ row # None /\ row' = None
    /\ pageRow' = IF row.kind = "page" THEN [pageRow EXCEPT ![row.name] = row.value] ELSE pageRow
    /\ storeRow' = IF row.kind = "store" THEN Changed(storeRow) ELSE storeRow
    /\ fileRow' = IF row.kind = "file" THEN Changed(fileRow) ELSE fileRow
    /\ spoiled' = spoiled \ {row.name}
    /\ UNCHANGED <<disk, uploads, req, ops, faults>>

Uploads(p) == {r \in Req : req[r] # None /\ req[r].kind = "upload" /\ req[r].name = p}
Extracting(s) == \E r \in Req : req[r] # None /\ req[r].at = "extract" /\ req[r].name = s

(* Requests end with the process, and the proxy removes what an upload has *)
(* written.  Nothing compares rows and disk at the next start.             *)
Crash ==
    /\ faults < MaxFault /\ faults' = faults + 1
    /\ req' = Idle /\ row' = None
    /\ spoiled' = spoiled \cup (IF row = None THEN {} ELSE {row.name})
                          \cup {s \in Slug : Extracting(s)}
    /\ target' = [p \in Path |-> IF Uploads(p) # {} /\ target[p] = "partial"
                                THEN "none" ELSE target[p]]
    /\ UNCHANGED <<disk, rows, told, ops>>

-----------------------------------------------------------------------------
(* Uploads: the proxy truncates the file and writes what arrives           *)

(* Uploads to one path that overlap write into one file, which is mixed    *)
(* then, or removed when one of them fails: "any".                         *)
StartUpload(r, p) ==
    /\ Start(r, "upload", p)
    /\ target' = [target EXCEPT ![p] = IF Uploads(p) = {} THEN "partial" ELSE "any"]
    /\ told' = [told EXCEPT ![p] = None]

CutsOff(r) ==                                                     \* mutant
    /\ At(r, "upload", "body")
    /\ told' = [told EXCEPT ![req[r].name] = "ok"]
    /\ Respond(r)
    /\ UNCHANGED <<disk, rows, target, row, spoiled, ops, faults>>

(* The last byte is on disk; the answer may be lost on its way.            *)
UploadEnds(r) ==
    /\ At(r, "upload", "body")
    /\ LET p == req[r].name
       IN /\ target' = [target EXCEPT ![p] = IF @ = "partial" THEN "whole" ELSE @]
          /\ \/ told' = [told EXCEPT ![p] = "ok"] /\ UNCHANGED faults
             \/ /\ faults < MaxFault /\ faults' = faults + 1
                /\ told' = [told EXCEPT ![p] = "failed"]
    /\ Respond(r)
    /\ UNCHANGED <<disk, rows, row, spoiled, ops>>

(* Too large, or the client or the connection is gone: the file is removed *)
(* with what it held before.                                               *)
UploadFails(r) ==
    /\ At(r, "upload", "body")
    /\ target' = [target EXCEPT ![req[r].name] = IF @ = "any" THEN "any" ELSE "none"]
    /\ told' = [told EXCEPT ![req[r].name] = "failed"]
    /\ Respond(r)
    /\ UNCHANGED <<disk, rows, row, spoiled, ops, faults>>

-----------------------------------------------------------------------------
Init ==
    /\ pageDir = [s \in Slug |-> None] /\ pageRow = [s \in Slug |-> None]
    /\ storeFile = [s \in Store |-> "none"] /\ storeRow = {}
    /\ onDisk = {} /\ fileRow = {}
    /\ target = [p \in Path |-> "none"] /\ told = [p \in Path |-> None]
    /\ req = Idle /\ row = None /\ spoiled = {} /\ ops = 0 /\ faults = 0

Next ==
    \/ \E r \in Req :
          \/ Abort(r) \/ PublishFile(r) \/ PublishTar(r) \/ Extract(r) \/ RunQuery(r)
          \/ StartAdd(r) \/ AddFile(r) \/ UploadEnds(r) \/ UploadFails(r)
          \/ \E s \in Slug : StartPublish(r, s)
          \/ \E s \in Store : StartQuery(r, s)
          \/ \E p \in Path : StartUpload(r, p)
    \/ \E s \in Slug : DeletePage(s)
    \/ \E s \in Store : CreateStore(s) \/ DeleteStore(s)
    \/ \E f \in FileId : DeleteFile(f)
    \/ WriteRow \/ Crash

-----------------------------------------------------------------------------
(* The rows say what is on disk, whatever requests overlap: a store that   *)
(* was deleted does not come back with a query that waited, and the count  *)
(* of a page is the number of its files.  Nothing undoes half a            *)
(* publication, so a page may have files its row does not count after a    *)
(* broken archive, a file that could not be written, one whose name led    *)
(* into it from another page, or a process that ended at the wrong moment, *)
(* until it is published again or deleted (routes.ts:1306-1803).           *)
RowsMatchDisk ==
    row = None =>
        /\ \A s \in Slug \ spoiled :
              IF pageDir[s] = None THEN pageRow[s] = None
              ELSE pageRow[s] = Cardinality(pageDir[s])
                   \/ (Extracting(s) /\ pageDir[s] = {} /\ pageRow[s] = None)
        /\ \A s \in Store \ spoiled : s \in storeRow <=> storeFile[s] # "none"
        /\ \A f \in FileId \ spoiled : f \in fileRow <=> f \in onDisk

(* An upload that was answered with ok is on the host, whole, unless       *)
(* another to the same path overlapped it (proxy/main.ts:323-347).         *)
UploadIsWhole == \A p \in Path : told[p] = "ok" => target[p] \in {"whole", "any"}

(* Both: what the server says it keeps is there (routes.ts:1306-1803,      *)
(* proxy/main.ts:323-347).                                                 *)
KeptWhole == RowsMatchDisk /\ UploadIsWhole
=============================================================================
