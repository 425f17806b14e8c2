--------------------------- MODULE TypeTransforms ---------------------------
(***************************************************************************)
(* infer_type_transform of app/rules/type_transforms.py: what a pair of    *)
(* declared types and the code conventions of a source field make of it.   *)
(* A type_transform is the source type, whether it is a code, and what it  *)
(* becomes; the notes are left out, and with them the branches that give   *)
(* the same transform with another note.                                   *)
(***************************************************************************)

\* CODE_VALUE_MAPS: what the codes of a source field stand for.
CodeKinds == {"none", "boolean", "string_enum"}

\* The code conventions of the source field come first, whatever the destination.
InferTypeTransform(code, base, isId, bson) ==
    [from |-> base,
     code |-> code # "none",
     to   |-> IF code = "boolean" THEN "Boolean"
              ELSE IF code = "string_enum" THEN "String enum"
              ELSE IF base = "INT" /\ bson = "ObjectId" /\ ~ isId
              THEN "ObjectId (reference)"
              ELSE bson]
=============================================================================
