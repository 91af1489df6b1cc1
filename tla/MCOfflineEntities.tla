------------------------- MODULE MCOfflineEntities -------------------------
(***************************************************************************)
(* Scenes for the offline engine: the empty one; a child listed before its *)
(* parent; two objects of one id; a chain of three; a parent with two      *)
(* children, one of them an avatar; and an object whose parent is missing. *)
(* With FirstId 4 all but the last are old; in the last the counter        *)
(* reaches an id of the scene.                                             *)
(***************************************************************************)
EXTENDS OfflineEntities, TLC

CONSTANTS h1, h2, h3

Record(i, t, p) == [id |-> i, type |-> t, parentId |-> p]

MCScenes ==
    {<<>>,
     h1 :> Record(1, "Object", 2) @@ h2 :> Record(2, "Object", None),
     h1 :> Record(1, "Object", None) @@ h2 :> Record(1, "Avatar", 2),
     h1 :> Record(1, "Object", 2) @@ h2 :> Record(2, "Object", 3)
        @@ h3 :> Record(3, "Object", None),
     h1 :> Record(1, "Object", 3) @@ h2 :> Record(2, "Avatar", 3)
        @@ h3 :> Record(3, "Object", None),
     h1 :> Record(4, "Object", None) @@ h2 :> Record(3, "Object", 5)}
=============================================================================
