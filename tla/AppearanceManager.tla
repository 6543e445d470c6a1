------------------------- MODULE AppearanceManager -------------------------
(***************************************************************************)
(* AppearanceManager and AppearanceTarget: the surface data (materials and *)
(* textures) of a document, the definitions that assign them to geometries *)
(* and polygons by id, and the assignment when parsing has finished.       *)
(***************************************************************************)
EXTENDS Integers, Sequences, FiniteSets

CONSTANTS Id, NoId,
  DataId,  \* ids a document gives to surface data
  Theme,
  Side     \* values of app:isFront

VARIABLES
  surfaceData,   \* the materials and textures created, in order
  appearances,   \* m_appearancesMap
  targets,       \* m_appearanceTargetsMap, raw pointers
  definitions,   \* the target definitions created, in order
  materialDefs,  \* m_materialTargetDefinitions, as far as not assigned
  textureDefs,   \* m_texTargetDefinitions, likewise
  themes,        \* m_themes
  slots          \* the four theme maps of every appearance target

(* A slot is the place for one definition in one of the maps of a target.  *)
Slot == [kind : {"material", "texture"}, front : Side, theme : Theme]

Empty(n) ==
  /\ surfaceData = <<>>
  /\ appearances = [d \in DataId |-> 0]
  /\ targets = [d \in Id |-> 0]
  /\ definitions = <<>>
  /\ materialDefs = <<>>
  /\ textureDefs = <<>>
  /\ themes = {}
  /\ slots = [o \in 1..n |-> [s \in Slot |-> 0]]

AddAppearanceTarget(d, o) ==
  /\ targets' = IF d = NoId THEN targets ELSE [targets EXCEPT ![d] = o]
  /\ UNCHANGED <<surfaceData, appearances, definitions, materialDefs, textureDefs, themes, slots>>

(* createMaterial, createTexture *)
AddAppearance(kind, d, front) ==
  /\ surfaceData' = Append(surfaceData, [kind |-> kind, front |-> front, themes |-> {}])
  /\ appearances' = IF d = NoId THEN appearances
                    ELSE [appearances EXCEPT ![d] = Len(surfaceData) + 1]
  /\ UNCHANGED <<targets, definitions, materialDefs, textureDefs, themes, slots>>

(* createMaterialTargetDefinition, createTextureTargetDefinition *)
AddTargetDefinition(data, d) ==
  LET new == Len(definitions) + 1 IN
  /\ definitions' = Append(definitions, [target |-> d, data |-> data])
  /\ IF surfaceData[data].kind = "material"
     THEN materialDefs' = Append(materialDefs, new) /\ UNCHANGED textureDefs
     ELSE textureDefs' = Append(textureDefs, new) /\ UNCHANGED materialDefs
  /\ UNCHANGED <<surfaceData, appearances, targets, themes, slots>>

(* Appearance::addToTheme for the members of an appearance *)
AddToTheme(members, t) ==
  /\ surfaceData' = [i \in DOMAIN surfaceData |->
                       IF i \in members THEN [surfaceData[i] EXCEPT !.themes = @ \cup {t}]
                       ELSE surfaceData[i]]
  /\ UNCHANGED <<appearances, targets, definitions, materialDefs, textureDefs, themes, slots>>

-----------------------------------------------------------------------------
(* The slots a definition is for.                                          *)
SlotsOf(def) ==
  LET data == surfaceData[definitions[def].data] IN
  {s \in Slot : s.kind = data.kind /\ s.front = data.front /\ s.theme \in data.themes}

WithTargetDefinitionLast(o, def) ==  \* mutant: count(theme) == 0 forgotten
  [s \in Slot |-> IF s \in SlotsOf(def) THEN def ELSE slots[o][s]]

(* AppearanceTarget::addTargetDefinition: the first one of a slot stays.   *)
WithTargetDefinition(o, def) ==
  [s \in Slot |-> IF s \in SlotsOf(def) /\ slots[o][s] = 0 THEN def ELSE slots[o][s]]

WithTargetDefinitionsOverwritten(o, other) ==  \* mutant: the other's definitions win
  [s \in Slot |-> IF slots[other][s] # 0 THEN slots[other][s] ELSE slots[o][s]]

(* AppearanceTarget::addTargetDefinitionsOf: only slots that are free.     *)
WithTargetDefinitionsOf(o, other) ==
  [s \in Slot |-> IF slots[o][s] = 0 THEN slots[other][s] ELSE slots[o][s]]

AssignMaterialThemes(def) ==  \* mutant: addThemesFrom for materials only
  LET o    == targets[definitions[def].target]
      data == surfaceData[definitions[def].data]
  IN  /\ slots' = IF o = 0 THEN slots ELSE [slots EXCEPT ![o] = WithTargetDefinition(o, def)]
      /\ themes' = IF data.kind = "material" THEN themes \cup data.themes ELSE themes

(* assignTargetDefinition and addThemesFrom *)
Assign(def) ==
  LET o == targets[definitions[def].target] IN
  /\ slots' = IF o = 0 THEN slots ELSE [slots EXCEPT ![o] = WithTargetDefinition(o, def)]
  /\ themes' = themes \cup surfaceData[definitions[def].data].themes

(* assignAppearancesToTargets: all materials, then all textures.           *)
AssignMaterial ==
  /\ materialDefs # <<>>
  /\ Assign(Head(materialDefs))
  /\ materialDefs' = Tail(materialDefs)
  /\ UNCHANGED <<surfaceData, appearances, targets, definitions, textureDefs>>

AssignTexture ==
  /\ materialDefs = <<>>
  /\ textureDefs # <<>>
  /\ Assign(Head(textureDefs))
  /\ textureDefs' = Tail(textureDefs)
  /\ UNCHANGED <<surfaceData, appearances, targets, definitions, materialDefs>>

Clear ==
  /\ materialDefs = <<>>
  /\ textureDefs = <<>>
  /\ targets' = [d \in Id |-> 0]
  /\ appearances' = [d \in DataId |-> 0]
  /\ UNCHANGED <<surfaceData, definitions, materialDefs, textureDefs, themes, slots>>
=============================================================================
