------------------------------ MODULE OrderedMap ------------------------------
(***************************************************************************)
(* What a radix tree promises: a map from keys to items.  Every operation  *)
(* reports the item it replaced or removed.                                *)
(***************************************************************************)
CONSTANTS MapKeys, MapItems, None

VARIABLES
  map,   \* the item of each key, or None
  key,   \* the key that the last operation was called with, or None
  old    \* what it returned

MapInit == map = [k \in MapKeys |-> None] /\ key = None /\ old = None

Store(item) ==
  /\ key' = item.key
  /\ old' = map[item.key]
  /\ map' = [map EXCEPT ![item.key] = item]

Remove(k) ==
  /\ key' = k
  /\ old' = map[k]
  /\ map' = [map EXCEPT ![k] = None]

RemoveAll == key' = None /\ old' = None /\ map' = [k \in MapKeys |-> None]

MapNext == RemoveAll \/ (\E k \in MapKeys : Remove(k)) \/ (\E item \in MapItems : Store(item))

MapSpec == MapInit /\ [][MapNext]_<<map, key, old>>

=============================================================================
