------------------------------ MODULE Transforms ------------------------------
(***************************************************************************)
(* Transforms::transformBitcode on one module: the opaque types are named  *)
(* (OpaqueTypes), then the strings are inlined and, when the passes have   *)
(* run, shown by the emitter (StringInline). A context is a record with    *)
(* the fields of both.                                                     *)
(***************************************************************************)
EXTENDS StringInline

VARIABLES typePhase, typePosition, name, typeWorklist, structType, diTypeWorklist, visitedTypes

typeVars == <<typePhase, typePosition, name, typeWorklist, structType, diTypeWorklist,
              visitedTypes>>

Types == INSTANCE OpaqueTypes WITH phase <- typePhase, position <- typePosition

ASSUME ModulesAssumption == \A c \in Contexts : HasStrings(c) /\ Types!HasTypes(c)

transformVars == <<stringVars, typeVars>>

TransformInit == StringInit /\ Types!Init

RenameOpaqueObjCTypes ==
  /\ Types!Next
  /\ UNCHANGED stringVars

InlineGlobalStrings ==
  /\ Types!Done
  /\ StringNext
  /\ UNCHANGED typeVars

TransformNext == RenameOpaqueObjCTypes \/ InlineGlobalStrings

TransformSpec == TransformInit /\ [][TransformNext]_transformVars

----------------------------------------------------------------------------
(* A type is named after what is its own, and stays nameless only when     *)
(* another one has used its description up (see OpaqueTypes).              *)
TypesGetTheirNames == Types!NamedAfterItsOwn /\ Types!NamelessWhenShared

=============================================================================
