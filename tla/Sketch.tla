------------------------------ MODULE Sketch -------------------------------
(***************************************************************************)
(* From the sketch an agent wrote to what is put on the canvas:            *)
(* validateSketchDoc (src/src/shared/sketch-dsl.ts), layoutSketch          *)
(* (sketch-layout.ts) and planSketchTranslation (sketch-translate.ts).     *)
(*                                                                         *)
(* Of a shape there is what decides where it goes.  Sizes are the default  *)
(* ones, in a unit of its own; an id that is not valid is Bad.  Text,      *)
(* colours, notes and the points of lines are left out.                    *)
(***************************************************************************)
EXTENDS Integers, Sequences, FiniteSets, FiniteSetsExt, Places

CONSTANTS Shape,     \* what an element of "shapes" may be (a set of Raw)
          None, Bad,
          MaxShapes  \* bound on the elements

VARIABLES raw, direction, stage,
          doc,   \* the shapes that are valid
          box,   \* of the shapes that have one
          plan   \* indices: drawn (in order), bound, free, dangling

vars == <<raw, direction, stage, doc, box, plan>>

(* at: "xy", or None without both coordinates; ends: are x1, y1, x2, y2    *)
(* given? None, "some", "all".                                             *)
Plain == [type |-> "rect", id |-> None, at |-> None, z |-> None, children |-> {},
          from |-> None, to |-> None, ends |-> None]

SketchAssumption ==
    /\ MaxShapes \in Nat
    /\ \A s \in Shape : /\ DOMAIN s = DOMAIN Plain
                        /\ s.z \in Int \cup {None}
                        /\ IsFiniteSet(s.children) /\ None \notin s.children

BoxTypes == {"rect", "text", "frame"}
NoPlan == [drawn |-> <<>>, bound |-> {}, free |-> {}, dangling |-> {}]

Init == /\ raw \in UNION {[1 .. n -> Shape] : n \in 0 .. MaxShapes}
        /\ direction \in {"row", "col"}
        /\ stage = "raw" /\ doc = <<>> /\ box = <<>> /\ plan = NoPlan

-----------------------------------------------------------------------------
(* validateSketchDoc                                                       *)

(* An arrow has a mode: by reference, else by coordinates.                 *)
ValidArrow(s) ==
    IF s.from # None \/ s.to # None THEN Bad \notin {s.from, s.to} ELSE s.ends = "all"
Valid(s) == /\ s.type \in BoxTypes \cup {"arrow", "line"}
            /\ s.type = "arrow" => ValidArrow(s)

(* An id that is not valid is dropped, from the shape and from children.   *)
Clean(s) == [s EXCEPT !.id = IF @ = Bad THEN None ELSE @,
                      !.children = @ \ {Bad}]

(* One bad shape is skipped; without any shape there is no sketch.         *)
ValidateSketchDoc ==
    /\ stage = "raw"
    /\ LET shapes == [i \in DOMAIN raw |-> Clean(raw[i])]
       IN  doc' = Picked(shapes, {i \in DOMAIN raw : Valid(shapes[i])})
    /\ stage' = IF doc' = <<>> THEN "failed" ELSE "valid"
    /\ UNCHANGED <<raw, direction, box, plan>>

-----------------------------------------------------------------------------
(* layoutSketch                                                            *)

Gap == 2
Padding == 1
Origin == 2

IsFrame(i) == doc[i].type = "frame"
Boxes == {i \in DOMAIN doc : doc[i].type \in BoxTypes}

Width(s) == CASE s.type = "rect" -> 4 [] s.type = "text" -> 5 [] s.type = "frame" -> 8
Height(s) == CASE s.type = "rect" -> 2 [] s.type = "text" -> 1 [] s.type = "frame" -> 4
Abs == [x |-> 0, y |-> 0]  \* the coordinates of the shapes that have them

At(p, i) == [x |-> p.x, y |-> p.y, w |-> Width(doc[i]), h |-> Height(doc[i])]
Advanced(p, b) == IF direction = "row" THEN [p EXCEPT !.x = @ + b.w + Gap]
                  ELSE [p EXCEPT !.y = @ + b.h + Gap]

(* Frames come last: they need their children.                             *)
InOrder(i, j) == i <= j                                           \* mutant
NotBefore(i, j) == IF IsFrame(i) = IsFrame(j) THEN i <= j ELSE IsFrame(j)

PlacingOrder == Ranked(Boxes, {p \in Boxes \X Boxes : NotBefore(p[1], p[2])})

(* boxById, of the shapes that are laid: the last one that has the id.     *)
WithId(laid, id) == {i \in DOMAIN laid : doc[i].id # None /\ doc[i].id = id}
BoxById(laid, id) ==
    laid[CHOOSE i \in WithId(laid, id) : \A j \in WithId(laid, id) : NotBefore(j, i)]

(* The bounding box of some boxes, and the padding around.                 *)
Around(boxes) ==
    LET x == Min({b.x : b \in boxes})
        y == Min({b.y : b \in boxes})
    IN  [x |-> x - Padding, y |-> y - Padding,
         w |-> Max({b.x + b.w : b \in boxes}) - x + 2 * Padding,
         h |-> Max({b.y + b.h : b \in boxes}) - y + 2 * Padding]

ChildBoxes(laid, i) ==
    {BoxById(laid, id) : id \in {c \in doc[i].children : WithId(laid, c) # {}}}

(* One shape more: at its coordinates, around its children, or next.       *)
Flows(laid, i) == doc[i].at = None /\ ~(IsFrame(i) /\ ChildBoxes(laid, i) # {})
BoxOf(acc, i) == IF doc[i].at # None THEN At(Abs, i)
                 ELSE IF Flows(acc.laid, i) THEN At(acc.cursor, i)
                 ELSE Around(ChildBoxes(acc.laid, i))
Place(acc, i) ==
    LET b == BoxOf(acc, i)
    IN  [cursor |-> IF Flows(acc.laid, i) THEN Advanced(acc.cursor, b) ELSE acc.cursor,
         laid |-> [j \in DOMAIN acc.laid \cup {i} |-> IF j = i THEN b ELSE acc.laid[j]]]

Start == [cursor |-> [x |-> Origin, y |-> Origin], laid |-> <<>>]
Placed ==
    LET upTo[n \in 0 .. Cardinality(Boxes)] ==
            IF n = 0 THEN Start ELSE Place(upTo[n - 1], PlacingOrder[n])
    IN  upTo

LayoutSketch ==
    /\ stage = "valid"
    /\ box' = Placed[Cardinality(Boxes)].laid
    /\ stage' = "laid"
    /\ UNCHANGED <<raw, direction, doc, plan>>

-----------------------------------------------------------------------------
(* planSketchTranslation                                                   *)

(* Without z, frames are behind all the others.                            *)
Order(i) == IF doc[i].z # None THEN doc[i].z
            ELSE IF IsFrame(i) THEN i - 1 - Len(doc) ELSE i - 1

Behind(i, j) == Order(i) < Order(j) \/ (Order(i) = Order(j) /\ NotBefore(i, j))

Refs(i) == {doc[i].from, doc[i].to} \ {None}
Resolved(i) == \A id \in Refs(i) : WithId(box, id) # {}

RefArrows == {i \in DOMAIN doc : doc[i].type = "arrow" /\ Refs(i) # {}}
(* connectorEndpoints has no result for an arrow with one end.             *)
Plan == [drawn |-> Ranked(Boxes, {p \in Boxes \X Boxes : Behind(p[1], p[2])}),
         bound |-> {i \in RefArrows : Resolved(i) /\ None \notin {doc[i].from, doc[i].to}},
         dangling |-> {i \in RefArrows : ~Resolved(i)},
         free |-> DOMAIN doc \ (RefArrows \cup Boxes)]

PlanSketchTranslation ==
    /\ stage = "laid"
    /\ plan' = Plan
    /\ stage' = "planned"
    /\ UNCHANGED <<raw, direction, doc, box>>

Next == ValidateSketchDoc \/ LayoutSketch \/ PlanSketchTranslation

Spec == Init /\ [][Next]_vars

-----------------------------------------------------------------------------
(* Properties                                                              *)

HalfBound(i) == doc[i].type = "arrow" /\ Cardinality({doc[i].from, doc[i].to} \ {None}) = 1
                /\ None \in {doc[i].from, doc[i].to}

(* Each shape of the sketch is drawn once, or reported as dangling; an     *)
(* arrow with one end is neither (sketch-translate.ts:134).                *)
Reached(i) == Cardinality({n \in DOMAIN plan.drawn : plan.drawn[n] = i})
              + Cardinality({part \in {"bound", "free", "dangling"} : i \in plan[part]})
EachShapeOnce == \A i \in DOMAIN doc : Reached(i) = 1 \/ (HalfBound(i) /\ Reached(i) = 0)

Inside(b, c) == /\ c.x <= b.x /\ b.x + b.w <= c.x + c.w
                /\ c.y <= b.y /\ b.y + b.h <= c.y + c.h
Apart(b, c) == \/ b.x + b.w < c.x \/ c.x + c.w < b.x
               \/ b.y + b.h < c.y \/ c.y + c.h < b.y

Named(id) == {j \in Boxes : doc[j].id = id}

(* A frame that is not placed is around its children, in any order of the  *)
(* shapes, as far as their ids are unique and they are no frames.          *)
FramesHoldTheirChildren ==
    \A i \in DOMAIN doc : IsFrame(i) /\ doc[i].at = None =>
        \A id \in doc[i].children : \A j \in Named(id) :
            Named(id) = {j} /\ ~IsFrame(j) => Inside(box[j], box[i])

(* What is drawn is what was declared (sketch-layout.ts:89-168,            *)
(* sketch-translate.ts:74-153).                                            *)
DrawnAsDeclared ==
    stage = "planned" =>
        /\ EachShapeOnce
        /\ FramesHoldTheirChildren
        /\ \A i, j \in DOMAIN box :
              i # j /\ doc[i].at = None /\ doc[j].at = None /\ ~IsFrame(i) /\ ~IsFrame(j)
              => Apart(box[i], box[j])

(* What the comment at the arrow without endpoints says, "should not       *)
(* happen for a ref arrow" (sketch-translate.ts:134): it does.             *)
NoArrowIsLost == stage = "planned" => \A i \in DOMAIN doc : Reached(i) = 1
=============================================================================
