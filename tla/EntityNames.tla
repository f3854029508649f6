---------------------------- MODULE EntityNames ----------------------------
(***************************************************************************)
(* The look-ups of entities by name (src/src/Util.cc), as pure operators.  *)
(*                                                                         *)
(* An entity is the path of names that leads to it from the world, for     *)
(* example <<"iris", "imu_link", "imu_sensor">>; siblings have different   *)
(* names, as SDF demands.  `kinds` maps the entities of a world to what    *)
(* they are.  A name given in SDF is a path too: one element is an         *)
(* unscoped name, several are what "a::b" stands for.                      *)
(***************************************************************************)
EXTENDS Integers, Sequences

NullEntity == <<>>

Name(e)   == e[Len(e)]
Parent(e) == SubSeq(e, 1, Len(e) - 1)

\* The entity e is inside the entity m.
Below(m, e) == Len(m) < Len(e) /\ SubSeq(e, 1, Len(m)) = m

\* gz::sim::entitiesFromScopedName (external).
entitiesFromScopedName(kinds, name, relativeTo) ==
  {e \in DOMAIN kinds : name # <<>> /\ e = relativeTo \o name}

\* All descendants with that name; the null entity is above every other.
EntitiesFromWholeWorld(kinds, name, relativeTo) ==                  \* mutant
  {e \in DOMAIN kinds : name = <<Name(e)>>}
EntitiesFromUnscopedName(kinds, name, relativeTo) ==
  {e \in DOMAIN kinds : name = <<Name(e)>> /\ Below(relativeTo, e)}

\* The plugin's sensors: scoped names first.
SensorsByName(kinds, name, model) ==
  LET scoped == entitiesFromScopedName(kinds, name, model)
  IN  IF scoped # {} THEN scoped ELSE EntitiesFromUnscopedName(kinds, name, model)

\* Joints have scoped names only; what is found must be a joint.
JointsByName(kinds, model, name) ==
  {e \in entitiesFromScopedName(kinds, name, model) : kinds[e] = "joint"}
=============================================================================
