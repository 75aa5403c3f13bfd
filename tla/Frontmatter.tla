---------------------------- MODULE Frontmatter ----------------------------
(***************************************************************************)
(* The frontmatter of a persona file: parseFrontmatter, splitFrontmatter,  *)
(* serializeCore and updateFrontmatterField of                             *)
(* src/src/orchestrator/persona.ts, with reconstructPersonaContent of      *)
(* routes.ts.  The structured editor shows the core fields and carries all *)
(* other lines verbatim; the API rewrites single lines.                    *)
(*                                                                         *)
(* A file is a sequence of lines, a line is an indentation, what is before *)
(* the colon and what is behind it.  "-" stands for a list item, with its  *)
(* step as the value, "" for a blank line.  What a nested block means is   *)
(* not told apart, which lines it consists of is.                          *)
(***************************************************************************)
EXTENDS Integers, Sequences, FiniteSets, SequencesExt, FiniteSetsExt

CONSTANTS Line,      \* lines that occur
          MaxLines,  \* bound on the lines of a file
          Value      \* what users set fields to

VARIABLES fm,     \* the lines between the two ---
          fields  \* history: what users have the fields to be

vars == <<fm, fields>>

Core == {"model", "teams"}       \* two of CORE_KEYS, in the order of emission
CoreOrder == <<"model", "teams">>
Steps == {"shell", "keystrokes"} \* of the pipeline, one that takes lines
Written == {"group", "teams"}    \* the fields updateFrontmatterField is called with

Nested == {"env", "start", "custom_buttons"}
Blank(l) == l.key = ""

-----------------------------------------------------------------------------
(* Which lines belong to a value                                           *)

(* The lines from i on that are indented by base or more, blank ones too.  *)
Deeper(ls, i, base) ==
    Max({n \in 0 .. Len(ls) - i + 1 :
            \A j \in i .. i + n - 1 : Blank(ls[j]) \/ ls[j].ind >= base})

(* parsePipelineSteps: how many lines from i on are steps; -1 if it throws.*)
Pipeline(ls, first, base) ==
    LET outside(l) == ~Blank(l) /\ (l.ind < base \/ l.key # "-")
        wrong(l) == ~Blank(l) /\ l.val \notin Steps
        under(i) == IF ls[i].val \in Steps \ {"shell"} THEN Deeper(ls, i + 1, ls[i].ind + 1)
                    ELSE 0
        count[i \in first .. Len(ls) + 1] ==
            IF i > Len(ls) \/ outside(ls[i]) THEN i - first
            ELSE IF wrong(ls[i]) THEN -1
            ELSE count[i + 1 + under(i)]
    IN  count[first]

(* parseNamedPipelineMap: names at the base, each with its steps.          *)
NamedPipelines(ls, first, base) ==
    LET outside(l) == ~Blank(l) /\ l.ind # base
        steps(i) ==
            IF ~Blank(ls[i]) /\ i < Len(ls) /\ ls[i + 1].ind > base /\ ls[i + 1].key = "-"
            THEN Max({0, Pipeline(ls, i + 1, ls[i + 1].ind)}) ELSE 0
        count[i \in first .. Len(ls) + 1] ==
            IF i > Len(ls) \/ outside(ls[i]) THEN i - first ELSE count[i + 1 + steps(i)]
    IN  count[first]

(* The lines that the value of the key in line i has after it.             *)
Body(ls, i) ==
    LET l == ls[i]
        base == ls[i + 1].ind
        steps == IF l.key # "env" /\ ls[i + 1].key = "-" THEN Pipeline(ls, i + 1, base) ELSE 0
    IN  IF i = Len(ls) \/ Blank(ls[i + 1]) \/ base = 0 THEN 0
        ELSE IF l.val # "|" /\ (l.val # "" \/ l.key \notin Nested) THEN 0
        ELSE IF l.key = "custom_buttons" /\ l.val = "" THEN NamedPipelines(ls, i + 1, base)
        ELSE IF l.val = "" /\ steps > 0 THEN steps
        ELSE Deeper(ls, i + 1, base)

-----------------------------------------------------------------------------
(* parseFrontmatter                                                        *)

(* The lines that are taken for a key, which an indented one is too.       *)
Heads(ls) ==
    LET from[i \in 1 .. Len(ls) + 1] ==
            IF i > Len(ls) THEN {}
            ELSE (IF Blank(ls[i]) THEN {} ELSE {i}) \cup from[i + 1 + Body(ls, i)]
    IN  from[1]

(* A list of teams may be empty.                                           *)
Normal(key, val) == IF key = "teams" /\ val = "" THEN "[]" ELSE val

Fields(ls) ==
    LET heads == Heads(ls)
        last(k) == Max({i \in heads : ls[i].key = k})
    IN  [k \in {ls[i].key : i \in heads} |->
            LET i == last(k)
            IN  [val |-> Normal(k, ls[i].val),
                 body |-> SelectSeq(SubSeq(ls, i + 1, i + Body(ls, i)), LAMBDA l : ~Blank(l))]]

-----------------------------------------------------------------------------
(* The editor: splitFrontmatter, serializeCore, reconstructPersonaContent  *)

StripsAny(l) == l.ind = 0 /\ l.key \in Core                       \* mutant
IsCore(l) == l.ind = 0 /\ l.key \in Core /\ l.val # "|"

CoreOf(ls) == LET fs == Fields(ls)
                  shown == {k \in Core : \E i \in DOMAIN ls : IsCore(ls[i]) /\ ls[i].key = k}
              IN  [k \in shown \cap DOMAIN fs |-> fs[k].val]

SerializeCore(core) ==
    LET line(k) == IF k \in DOMAIN core /\ (core[k] # "" \/ k = "teams")
                   THEN <<[ind |-> 0, key |-> k, val |-> core[k]]>> ELSE <<>>
    IN  FlattenSeq([n \in DOMAIN CoreOrder |-> line(CoreOrder[n])])

(* trim: the blank lines at the ends, and the indentation of the first.    *)
Trim(ls) ==
    LET full == {i \in DOMAIN ls : ~Blank(ls[i])}
    IN  IF full = {} THEN <<>>
        ELSE [SubSeq(ls, Min(full), Max(full)) EXCEPT ![1].ind = 0]

Saved(ls, core) ==
    SerializeCore(core) \o Trim(SelectSeq(ls, LAMBDA l : ~IsCore(l)))

-----------------------------------------------------------------------------
(* updateFrontmatterField                                                  *)

(* Every line with that key, wherever it stands.                           *)
UpdatedField(ls, f, v) ==
    LET line == [ind |-> 0, key |-> f, val |-> v]
        kept == IF v = "" THEN SelectSeq(ls, LAMBDA l : l.key # f) ELSE ls
    IN  IF v # "" /\ \A i \in DOMAIN ls : ls[i].key # f THEN Append(ls, line)
        ELSE [i \in DOMAIN kept |-> IF kept[i].key = f THEN line ELSE kept[i]]

-----------------------------------------------------------------------------

(* A file as it is meant: keys stand once and at the margin, and every     *)
(* line that is indented belongs to one that takes lines.                  *)
Intended(ls) ==
    LET heads == Heads(ls)
    IN  /\ \A i \in heads : ls[i].ind = 0
        /\ \A i, j \in heads : ls[i].key = ls[j].key => i = j
        /\ \A i \in DOMAIN ls : ls[i].key \in Written => i \in heads /\ Body(ls, i) = 0

Files == UNION {[1 .. n -> Line] : n \in 0 .. MaxLines}

(* A field with no value is as good as none.                               *)
Given(fs) == [k \in {k \in DOMAIN fs : fs[k].val # "" \/ fs[k].body # <<>>} |-> fs[k]]
With(fs, f, v) ==
    Given([k \in DOMAIN fs \cup {f} |-> IF k = f THEN [val |-> v, body |-> <<>>] ELSE fs[k]])

Init == /\ fm \in {ls \in Files : Intended(ls)}
        /\ fields = Given(Fields(fm))

(* PUT /api/personas/:name with one field changed.  A core field with a    *)
(* block is left to the text editor.                                       *)
EditCore(k, v) ==
    /\ k \in DOMAIN fields => fields[k].val # "|"
    /\ LET core == CoreOf(fm)
       IN  fm' = Saved(fm, [x \in DOMAIN core \cup {k} |-> IF x = k THEN v ELSE core[x]])
    /\ fields' = With(fields, k, v)

(* What a field may be set to.                                             *)
Values(f) == Value \cup {Normal(f, "")}

Save == /\ fm' = Saved(fm, CoreOf(fm))
        /\ UNCHANGED fields

(* The group of an agent, or its teams.                                    *)
UpdateField(f, v) == /\ fm' = UpdatedField(fm, f, v)
                     /\ fields' = With(fields, f, v)

Next == \/ Save
        \/ \E k \in Core : \E v \in Values(k) : EditCore(k, v)
        \/ \E f \in Written : \E v \in Values(f) : UpdateField(f, v)

Spec == Init /\ [][Next]_vars

-----------------------------------------------------------------------------
(* Properties                                                              *)

(* Whatever sequence of saves in the editor and rewritten lines: what the  *)
(* file is parsed to is what it said at first with the fields set that     *)
(* were set (persona.ts:400-402).                                          *)
FieldsAreKept == Given(Fields(fm)) = fields

(* The invariant the comment of splitFrontmatter states, for any file:     *)
(* opening it in the editor and saving it changes no field.                *)
SaveKeepsFields == [][fm' = Saved(fm, CoreOf(fm)) => Given(Fields(fm')) = Given(Fields(fm))]_vars
=============================================================================
