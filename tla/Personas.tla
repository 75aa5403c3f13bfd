------------------------------ MODULE Personas ------------------------------
(***************************************************************************)
(* Persona files and what is made of them: the rows of the agents and the  *)
(* teams (src/src/orchestrator/persona.ts, persona-backfill.ts,            *)
(* field-registry.ts, database.ts), the routes that change them, and the   *)
(* poll of the directory in main.ts.                                       *)
(*                                                                         *)
(* Of the configuration one optional field is told apart ("opt"), and      *)
(* whether engine and cwd are there ("ok").  A team is known by its name.  *)
(* Agents are numbers in the order in which their files are read.          *)
(***************************************************************************)
EXTENDS Integers

CONSTANTS Agent, Opt, Team,
          LongTeam,     \* names of more than 64 characters: createTeam throws
          None,         \* no file, no row, no value, no teams: in the file
          MaxOp         \* bound on what users do

VARIABLES file,     \* file[a]: what persistent-agents/<a>.md says
          row,      \* row[a]: the configuration in agents
          teams,    \* teams that exist
          member,   \* member[t]: team_members
          blank,    \* is lastPersonaHash empty?
          changed,  \* do the files differ from lastPersonaHash?
          deleting, \* agents whose deletion awaits the proxy
          ops,      \* counter, for MaxOp
          gone,     \* history: agents deleted, and not written or made since
          edited    \* history: agents whose file a user wrote under the watch

db == <<row, teams, member>>
watch == <<blank, changed>>
vars == <<file, db, watch, deleting, ops, gone, edited>>

File == [ok : BOOLEAN, opt : Opt \cup {None}, teams : (SUBSET Team) \cup {None}]

PersonasAssumption == None \notin File /\ None \notin [opt : Opt \cup {None}]

TypeOK == /\ file \in [Agent -> File \cup {None}]
          /\ row \in [Agent -> [opt : Opt \cup {None}] \cup {None}]
          /\ teams \subseteq Team \ LongTeam
          /\ member \in [Team -> SUBSET Agent]
          /\ \A t \in Team \ teams : member[t] = {}
          /\ blank \in BOOLEAN /\ changed \in BOOLEAN
          /\ deleting \subseteq Agent /\ gone \subseteq Agent /\ edited \subseteq Agent
          /\ ops \in 0 .. MaxOp

Init == /\ file = [a \in Agent |-> None] /\ row = [a \in Agent |-> None]
        /\ teams = {} /\ member = [t \in Team |-> {}]
        /\ blank = TRUE /\ changed = FALSE
        /\ deleting = {} /\ ops = 0 /\ gone = {} /\ edited = {}

-----------------------------------------------------------------------------
(* upsertAgentFromPersona                                                  *)

Syncable(a, f) == f[a] # None /\ f[a].ok
Throws(a, f) == f[a].teams # None /\ f[a].teams \cap LongTeam # {}

(* setAgentTeams for the agents of "all"; "some" are the memberships added *)
(* for an agent whose list it does not get through.                        *)
Reconciled(all, some, f) ==
    LET listed == {a \in all : f[a].teams # None}
    IN  /\ teams' = teams \cup UNION {f[a].teams : a \in listed} \cup {p[2] : p \in some}
        /\ member' = [t \in Team |-> {a \in Agent :
                         IF a \in listed THEN t \in f[a].teams
                         ELSE a \in member[t] \/ <<a, t>> \in some}]

(* The rows of "as" are written, in the order of the names and up to the   *)
(* first that throws.                                                      *)
Upsert(as, f) ==
    LET thrower == {a \in as : Throws(a, f) /\ \A b \in as : b < a => ~Throws(b, f)}
        reached == {a \in as : \A b \in thrower : a <= b}
    IN  /\ row' = [a \in Agent |-> IF a \in reached THEN [opt |-> f[a].opt] ELSE row[a]]
        /\ \E some \in SUBSET UNION {{a} \X (f[a].teams \ LongTeam) : a \in thrower} :
               Reconciled(reached \ thrower, some, f)

NoDiff(a, f) == row[a] = None                                       \* mutant
(* configFieldsChanged compares the columns of agents, which the teams are *)
(* not.                                                                    *)
Differs(a, f) == row[a] = None \/ row[a].opt # f[a].opt

SyncPersonasWithDiff == Upsert({a \in Agent : Syncable(a, file) /\ Differs(a, file)}, file)

-----------------------------------------------------------------------------
(* Start of the orchestrator                                               *)

TeamsOf(a, m) == {t \in Team : a \in m[t]}

(* backfillFrontmatterFromDb: what the file does not say comes from the    *)
(* row, engine and cwd too.                                                *)
Backfilled(a) ==
    IF file[a] = None \/ row[a] = None THEN file[a]
    ELSE [ok |-> TRUE,
          opt |-> IF file[a].opt = None THEN row[a].opt ELSE file[a].opt,
          teams |-> IF file[a].teams = None /\ TeamsOf(a, member) # {}
                    THEN TeamsOf(a, member) ELSE file[a].teams]

(* Then every file is written to the database.                             *)
Restart ==
    LET f == [a \in Agent |-> Backfilled(a)]
    IN  /\ file' = f
        /\ Upsert({a \in Agent : Syncable(a, f)}, f)
        /\ blank' = TRUE /\ changed' = FALSE
        /\ deleting' = {} /\ edited' = {}
        /\ UNCHANGED <<ops, gone>>

-----------------------------------------------------------------------------
(* The poll of the directory                                               *)

Files == {a \in Agent : file[a] # None}

(* An empty hash is "the first run": of the process, or since the          *)
(* directory was empty.                                                    *)
Poll == /\ IF blank THEN Files # {} ELSE changed
        /\ changed' = FALSE /\ blank' = (Files = {})
        /\ IF blank THEN UNCHANGED db ELSE SyncPersonasWithDiff
        /\ UNCHANGED <<file, deleting, ops, gone, edited>>

(* POST /api/personas/reload and /api/sync-personas *)
ReloadPersonas == /\ SyncPersonasWithDiff
                  /\ UNCHANGED <<file, watch, deleting, ops, gone, edited>>

(* Before a spawn, resume, reload or recover.                              *)
SyncSinglePersona(a) == /\ Syncable(a, file) /\ Upsert({a}, file)
                        /\ UNCHANGED <<file, watch, deleting, ops, gone, edited>>

-----------------------------------------------------------------------------
(* Users write files, and make and delete agents                           *)

Acts == ops < MaxOp /\ ops' = ops + 1

Wrote(a, f) == /\ file' = [file EXCEPT ![a] = f]
               /\ changed' = TRUE
               /\ gone' = gone \ {a}
               /\ edited' = IF blank THEN edited \ {a} ELSE edited \cup {a}
               /\ UNCHANGED blank

(* PUT /api/personas/:name, or an editor.                                  *)
WriteFile(a, f) == Acts /\ Wrote(a, f) /\ UNCHANGED <<db, deleting>>

RemoveFile(a) == /\ Acts /\ file[a] # None
                 /\ file' = [file EXCEPT ![a] = None]
                 /\ changed' = TRUE
                 /\ edited' = edited \ {a}
                 /\ UNCHANGED <<db, blank, deleting, gone>>

(* POST /api/personas; when the upsert throws, the file is there all the   *)
(* same.                                                                   *)
CreatePersonaAndAgent(a, f) ==
    /\ Acts /\ f.ok /\ Wrote(a, f)
    /\ Upsert({a}, [file EXCEPT ![a] = f])
    /\ UNCHANGED deleting

(* POST /api/agents: the row, then a file, whose failure is passed over.   *)
CreateAgent(a, o) ==
    /\ Acts /\ row[a] = None
    /\ row' = [row EXCEPT ![a] = [opt |-> o]]
    /\ \/ Wrote(a, [ok |-> TRUE, opt |-> o, teams |-> None])
       \/ gone' = gone \ {a} /\ UNCHANGED <<file, watch, edited>>
    /\ UNCHANGED <<teams, member, deleting>>

(* DELETE /api/agents/:name and destroy await the proxy first.             *)
BeginDelete(a) == /\ Acts /\ row[a] # None /\ a \notin deleting
                  /\ deleting' = deleting \cup {a}
                  /\ UNCHANGED <<file, db, watch, gone, edited>>

KeepFile(a) == UNCHANGED <<file, changed>>                          \* mutant
Unlink(a) == /\ file' = [file EXCEPT ![a] = None]
             /\ changed' = (changed \/ file[a] # None)

EndDelete(a) == /\ a \in deleting
                /\ Unlink(a)
                /\ row' = [row EXCEPT ![a] = None]
                /\ deleting' = deleting \ {a}
                /\ gone' = gone \cup {a} /\ edited' = edited \ {a}
                /\ UNCHANGED <<teams, member, blank, ops>>

(* PATCH /api/agents/:name/group *)
SetField(a, o) ==
    /\ Acts /\ row[a] # None
    /\ row' = [row EXCEPT ![a].opt = o]
    /\ file' = IF file[a] = None THEN file ELSE [file EXCEPT ![a].opt = o]
    /\ changed' = (changed \/ file[a] # None)
    /\ UNCHANGED <<teams, member, blank, deleting, gone, edited>>

-----------------------------------------------------------------------------
(* Teams, written through to the files                                     *)

(* writeAgentTeams: the whole list, over what the file says.               *)
WriteThrough(as) ==
    /\ file' = [a \in Agent |-> IF a \in as /\ file[a] # None
                                THEN [file[a] EXCEPT !.teams = TeamsOf(a, member')] ELSE file[a]]
    /\ changed' = (changed \/ file' # file)
    /\ UNCHANGED <<row, blank, deleting, gone, edited>>

CreateTeam(t, as) == /\ Acts /\ t \notin teams \cup LongTeam
                     /\ teams' = teams \cup {t}
                     /\ member' = [member EXCEPT ![t] = as]
                     /\ WriteThrough(as)

RenameTeam(t, u) == /\ Acts /\ t \in teams /\ u \notin teams \cup LongTeam
                    /\ teams' = (teams \ {t}) \cup {u}
                    /\ member' = [member EXCEPT ![t] = {}, ![u] = member[t]]
                    /\ WriteThrough(member[t])

DeleteTeam(t) == /\ Acts /\ t \in teams
                 /\ teams' = teams \ {t}
                 /\ member' = [member EXCEPT ![t] = {}]
                 /\ WriteThrough(member[t])

ChangeMember(t, a) ==
    /\ Acts /\ t \in teams
    /\ \E as \in {member[t] \cup {a}, member[t] \ {a}} : member' = [member EXCEPT ![t] = as]
    /\ UNCHANGED teams
    /\ WriteThrough({a})

-----------------------------------------------------------------------------

Next == \/ Restart \/ Poll \/ ReloadPersonas
        \/ \E a \in Agent :
              \/ SyncSinglePersona(a) \/ RemoveFile(a) \/ BeginDelete(a) \/ EndDelete(a)
              \/ \E f \in File : WriteFile(a, f) \/ CreatePersonaAndAgent(a, f)
              \/ \E o \in Opt \cup {None} : CreateAgent(a, o) \/ SetField(a, o)
              \/ \E t \in Team : ChangeMember(t, a)
        \/ \E t \in Team : \/ DeleteTeam(t)
                           \/ \E as \in SUBSET Agent : CreateTeam(t, as)
                           \/ \E u \in Team : RenameTeam(t, u)

Spec == Init /\ [][Next]_vars

-----------------------------------------------------------------------------
(* Properties                                                              *)

(* A deleted agent does not come back by a sync, a restart or a change of  *)
(* its teams, only when its file is written or the agent is made again     *)
(* (routes.ts:700, lifecycle.ts:965).                                      *)
NoResurrection == \A a \in gone : row[a] = None /\ file[a] = None

(* Once the watch has seen the files, the row of an agent is what a user   *)
(* wrote into its file, whoever else wrote the file, the row or the teams  *)
(* meanwhile, unless a file names a team that cannot be made (the sync     *)
(* ends there) or the process restarts (main.ts:578-612).                  *)
Stuck == \E b \in Agent : file[b] # None /\ Throws(b, file)
FileIsFollowed ==
    \A a \in edited : Syncable(a, file) /\ ~changed /\ ~Stuck
                     => row[a] # None /\ row[a].opt = file[a].opt

(* Both: what the directory says is what the database has, of agents that  *)
(* were deleted as of those that were edited (routes.ts:700,               *)
(* main.ts:578-612).                                                       *)
RowsFollowFiles == NoResurrection /\ FileIsFollowed

(* The comment of setAgentTeams, the file is the source of truth for the   *)
(* memberships (database.ts:1548-1552, persona.ts:49-50), does not hold: a *)
(* file whose only change is its teams counts as unchanged.                *)
TeamsFollowFile ==
    \A a \in edited :
        Syncable(a, file) /\ file[a].teams # None /\ ~changed /\ ~Stuck
        => file[a].teams = TeamsOf(a, member)
=============================================================================
