------------------------------ MODULE Clients ------------------------------
(***************************************************************************)
(* The components of Server and Browser, and those of which TLC alone      *)
(* shows the properties.  One of all moves, so TLC explores the sum of     *)
(* their state spaces, not the product; what is proved of Server and of    *)
(* Browser holds here.                                                     *)
(***************************************************************************)
EXTENDS Server, Browser

CONSTANTS FileLine, MaxLines, Value,                        \* Frontmatter
          Bad, Shape, MaxShapes                             \* Sketch

VARIABLES
    \* Frontmatter
    fm, fields,
    \* Sketch
    raw, direction, stage, doc, box, plan

Front == INSTANCE Frontmatter WITH Line <- FileLine

Drawing == INSTANCE Sketch

ASSUME ClientsAssumption == Drawing!SketchAssumption

-----------------------------------------------------------------------------
frontmatterVars ==
    <<fm, fields>>
sketchVars ==
    <<raw, direction, stage, doc, box, plan>>
vars == <<serverVars, browserVars, frontmatterVars, sketchVars>>

(* A component with many initial states has one while it does not move.    *)
Init ==
    /\ ServerInit /\ BrowserInit
    /\ IF part = "frontmatter" THEN Front!Init ELSE fm = <<>> /\ fields = <<>>
    /\ IF part = "sketch" THEN Drawing!Init
       ELSE /\ raw = <<>> /\ direction = "row" /\ stage = "raw" /\ doc = <<>> /\ box = <<>>
            /\ plan = Drawing!NoPlan

Next ==
    /\ ServerNext /\ BrowserNext
    /\ IF part = "frontmatter" THEN Front!Next ELSE UNCHANGED frontmatterVars
    /\ IF part = "sketch" THEN Drawing!Next ELSE UNCHANGED sketchVars

Spec == Init /\ [][Next]_vars

-----------------------------------------------------------------------------
(* No save changes a field nobody set (persona.ts:400-402).                *)
FieldsAreKept == part = "frontmatter" => Front!FieldsAreKept

(* A sketch is drawn as declared (sketch-layout.ts:89-168).                *)
DrawnAsDeclared == part = "sketch" => Drawing!DrawnAsDeclared
=============================================================================
