----------------------- MODULE KeyProvisioningProofs -----------------------
(* The devices' keys, for every number of devices and every order of       *)
(* generating, flashing, failing and power cycling.                        *)
EXTENDS KeyProvisioning, SequenceTheorems, FiniteSetTheorems, TLAPS

\* A table of keys, as crypto_flasher holds it: at least one, at most one per name.
IsTable(keys) == Len(keys) \in 1 .. LastId + 2 /\ DOMAIN keys = 1 .. Len(keys)

\* The first n imports of device d are in its storage.  The second replaces the
\* first; all others have a place of their own.
Held(store, d, keys, n) ==
    /\ n >= 2 => store[COUNTER_ID] = 0
    /\ n >= 3 => store[0] = KeyAt(keys, 0)
    /\ d = 0 => \A i \in 1 .. LastId + 1 : i + 3 <= n => store[i] = KeyAt(keys, i)
    /\ d # 0 /\ n >= 4 => store[1] = KeyAt(keys, d)

ShapeOK ==
    /\ DOMAIN keys_obj \subseteq Names
    /\ keys_obj = [i \in DOMAIN keys_obj |-> keys_obj[i]]
    /\ DOMAIN bench = {"device", "keys", "at", "phase"}
    /\ bench.device \in Ids /\ bench.at \in Nat
    /\ DOMAIN psa = Ids /\ \A d \in Ids : DOMAIN psa[d] = PsaIds
    /\ DOMAIN done = Ids

\* While crypto_flasher runs, everything before the current import is in place and
\* the device does not count as done.
BenchInv ==
    /\ bench.phase # "off" => IsTable(bench.keys)
    /\ bench.phase \in {"destroy", "import"} =>
          /\ bench.at \in 1 .. Len(Imports(bench.device, bench.keys))
          /\ Held(psa[bench.device], bench.device, bench.keys, bench.at - 1)
    /\ bench.phase \in {"destroy", "import", "failed"} => done[bench.device] = <<>>

DoneInv ==
    \A d \in Ids : done[d] # <<>> =>
       /\ IsTable(done[d])
       /\ Held(psa[d], d, done[d], Len(Imports(d, done[d])))

IInv == ShapeOK /\ BenchInv /\ DoneInv
-----------------------------------------------------------------------------
(* The operators the model is built from.                                  *)

\* How many keys main imports, and which: keys[i] goes to place i on the advertiser,
\* a scanner's own key to place 1.
LEMMA ImportsAt ==
    ASSUME NEW d \in Ids, NEW keys, IsTable(keys)
    PROVE  /\ Len(Imports(d, keys)) = IF d = 0 THEN Len(keys) + 2 ELSE 4
           /\ Imports(d, keys)[1] = <<COUNTER_ID, Drawn>>
           /\ Imports(d, keys)[2] = <<COUNTER_ID, 0>>
           /\ Imports(d, keys)[3] = <<0, KeyAt(keys, 0)>>
           /\ d # 0 => Imports(d, keys)[4] = <<1, KeyAt(keys, d)>>
           /\ d = 0 => \A n \in 4 .. Len(keys) + 2 :
                          Imports(d, keys)[n] = <<n - 3, KeyAt(keys, n - 3)>>
<1> DEFINE V == {Drawn, 0} \cup {KeyAt(keys, i) : i \in Nat}
           P == (Nat \cup {COUNTER_ID}) \X V
           first == << <<COUNTER_ID, Drawn>>, <<COUNTER_ID, 0>>, <<0, KeyAt(keys, 0)>> >>
           rest == IF d = 0 THEN [i \in 1 .. Len(keys) - 1 |-> <<i, KeyAt(keys, i)>>]
                   ELSE << <<1, KeyAt(keys, d)>> >>
<1>1. d \in Nat /\ LastId \in Nat /\ Len(keys) \in Nat \ {0}
  BY ProvisioningAssumption DEF Ids, IsTable
<1>2. \A i \in Nat : KeyAt(keys, i) \in V
  OBVIOUS
<1>3. <<COUNTER_ID, Drawn>> \in P /\ <<COUNTER_ID, 0>> \in P /\ <<0, KeyAt(keys, 0)>> \in P
  BY <1>2
<1>4. \A i \in Nat : <<i, KeyAt(keys, i)>> \in P
  BY <1>2
<1>5. <<1, KeyAt(keys, d)>> \in P
  BY <1>1, <1>2
<1> HIDE DEF V, P
<1>6. first \in Seq(P) /\ Len(first) = 3
  BY <1>3
<1>7. /\ rest \in Seq(P)
      /\ Len(rest) = IF d = 0 THEN Len(keys) - 1 ELSE 1
      /\ d # 0 => rest[1] = <<1, KeyAt(keys, d)>>
      /\ d = 0 => \A i \in 1 .. Len(keys) - 1 : rest[i] = <<i, KeyAt(keys, i)>>
  <2>1. CASE d # 0
    BY <2>1, <1>5
  <2>2. CASE d = 0
    <3> DEFINE n == Len(keys) - 1
    <3>1. n \in Nat
      BY <1>1
    <3>2. \A i \in 1 .. n : <<i, KeyAt(keys, i)>> \in P
      BY <3>1, <1>4
    <3> HIDE DEF n
    <3> DEFINE r == [i \in 1 .. n |-> <<i, KeyAt(keys, i)>>]
    <3>3. r \in Seq(P) /\ Len(r) = n
      BY <3>1, <3>2
    <3>4. rest = r
      BY <2>2 DEF n
    <3> QED
      BY <2>2, <3>1, <3>3, <3>4 DEF n
  <2> QED
    BY <2>1, <2>2
<1>8. Imports(d, keys) = first \o rest
  BY DEF Imports
<1>9. first[1] = <<COUNTER_ID, Drawn>> /\ first[2] = <<COUNTER_ID, 0>>
         /\ first[3] = <<0, KeyAt(keys, 0)>>
  OBVIOUS
<1> HIDE DEF first, rest
<1>10. /\ Len(first \o rest) = 3 + Len(rest)
       /\ \A i \in 1 .. 3 + Len(rest) :
             (first \o rest)[i] = IF i <= 3 THEN first[i] ELSE rest[i - 3]
  <2>1. /\ Len(first \o rest) = Len(first) + Len(rest)
        /\ \A i \in 1 .. Len(first) + Len(rest) :
              (first \o rest)[i] = IF i <= Len(first) THEN first[i] ELSE rest[i - Len(first)]
    BY ONLY ConcatProperties, <1>6, <1>7
  <2> QED
    BY ONLY <2>1, <1>6
<1>11. Len(rest) \in Nat
  BY <1>1, <1>7
<1>12. \A n \in 4 .. Len(keys) + 2 : n - 3 \in 1 .. Len(keys) - 1
  BY <1>1
<1>13. /\ Len(Imports(d, keys)) = IF d = 0 THEN Len(keys) + 2 ELSE 4
       /\ \A i \in 1 .. 3 : Imports(d, keys)[i] = first[i]
  BY ONLY <1>1, <1>7, <1>8, <1>10, <1>11
<1>14. d # 0 => Imports(d, keys)[4] = <<1, KeyAt(keys, d)>>
  BY ONLY <1>7, <1>8, <1>10, <1>11
<1>15. d = 0 => \A n \in 4 .. Len(keys) + 2 :
                   Imports(d, keys)[n] = <<n - 3, KeyAt(keys, n - 3)>>
  BY ONLY <1>1, <1>7, <1>8, <1>10, <1>12
<1> QED
  BY <1>9, <1>13, <1>14, <1>15

\* cmake_dump makes a table of any non-empty keys.json.
LEMMA DumpIsTable ==
    ASSUME ShapeOK, keys_obj # <<>>
    PROVE  IsTable(cmake_dump)
<1> DEFINE n == Cardinality(DOMAIN keys_obj)
<1>1. /\ IsFiniteSet(Names) /\ Cardinality(Names) = LastId + 2
      /\ IsFiniteSet(DOMAIN keys_obj) /\ n <= Cardinality(Names)
  <2>1. LastId \in Nat /\ LastId \in Int /\ 0 \in Int /\ None \notin Ids
    BY ProvisioningAssumption DEF Ids
  <2>2. IsFiniteSet(Ids) /\ Cardinality(Ids) = LastId + 1
    <3>1. /\ IsFiniteSet(Ids)
          /\ Cardinality(Ids) = IF 0 > LastId THEN 0 ELSE LastId - 0 + 1
      BY <2>1, FS_Interval DEF Ids
    <3> QED
      BY ONLY <2>1, <3>1
  <2>3. IsFiniteSet(Names) /\ Cardinality(Names) = Cardinality(Ids) + 1
    BY ONLY <2>1, <2>2, FS_AddElement DEF Names
  <2>4. DOMAIN keys_obj \subseteq Names
    BY DEF ShapeOK
  <2>5. IsFiniteSet(DOMAIN keys_obj) /\ Cardinality(DOMAIN keys_obj) <= Cardinality(Names)
    BY ONLY <2>3, <2>4, FS_Subset
  <2> QED
    BY ONLY <2>1, <2>2, <2>3, <2>5 DEF n
<1>2. DOMAIN keys_obj # {}
  <2>1. ASSUME DOMAIN keys_obj = {} PROVE FALSE
    <3>1. keys_obj = [i \in {} |-> keys_obj[i]]
      BY <2>1 DEF ShapeOK
    <3>2. [i \in {} |-> keys_obj[i]] = <<>>
      OBVIOUS
    <3> QED
      BY <3>1, <3>2
  <2> QED
    BY <2>1
<1>3. n \in Nat
  BY <1>1, FS_CardinalityType
<1>4. n # 0
  BY <1>1, <1>2, FS_EmptySet
<1>6. n <= LastId + 2
  BY <1>1
<1> HIDE DEF n
<1>5. PICK e : cmake_dump = [i \in 1 .. n |-> keys_obj[e[i]]]
  BY DEF cmake_dump, n
<1> QED
  BY <1>3, <1>4, <1>5, <1>6, ProvisioningAssumption DEF IsTable

\* Import n, and the destruction of the key it replaces, disturb none before it.
LEMMA ImportKeeps ==
    ASSUME NEW d \in Ids, NEW keys, IsTable(keys),
           NEW n \in 1 .. Len(Imports(d, keys)),
           NEW store, DOMAIN store = PsaIds, NEW v,
           Held(store, d, keys, n - 1),
           NEW im, im = Imports(d, keys)[n],
           NEW new, new = [store EXCEPT ![im[1]] = v]
    PROVE  /\ Held(new, d, keys, n - 1)
           /\ v = im[2] => Held(new, d, keys, n)
<1>1. /\ d \in Nat /\ LastId \in Nat /\ Len(keys) \in Nat \ {0}
      /\ COUNTER_ID \notin 0 .. LastId + 1 /\ COUNTER_ID \in PsaIds
      /\ \A i \in 0 .. LastId + 1 : i \in Nat /\ i \in PsaIds
      /\ 0 \in 0 .. LastId + 1 /\ 1 \in 0 .. LastId + 1
  BY ProvisioningAssumption DEF Ids, PsaIds, IsTable
<1>2. n \in Nat \ {0}
  BY <1>1, ImportsAt
<1>3. CASE n <= 2
  <2>1. im[1] = COUNTER_ID /\ (n = 2 => im[2] = 0)
    BY <1>2, <1>3, ImportsAt
  <2>2. new[COUNTER_ID] = v
    BY <1>1, <2>1
  <2> QED
    BY <1>1, <1>2, <1>3, <2>1, <2>2 DEF Held
<1>4. CASE n = 3
  <2>1. im = <<0, KeyAt(keys, 0)>>
    BY <1>4, ImportsAt
  <2>2. im[1] = 0 /\ im[2] = KeyAt(keys, 0)
    BY <2>1
  <2>3. new[0] = v /\ new[COUNTER_ID] = store[COUNTER_ID]
    BY <1>1, <2>2
  <2>4. store[COUNTER_ID] = 0
    BY <1>4 DEF Held
  <2> QED
    BY <1>1, <1>4, <2>2, <2>3, <2>4 DEF Held
<1>5. CASE n >= 4 /\ d # 0
  <2>3. Len(Imports(d, keys)) = 4 /\ Imports(d, keys)[4] = <<1, KeyAt(keys, d)>>
    BY ONLY <1>5, IsTable(keys), d \in Ids, ImportsAt
  <2>1. n = 4 /\ im = <<1, KeyAt(keys, d)>>
    BY <1>2, <1>5, <2>3
  <2>2. im[1] = 1 /\ im[2] = KeyAt(keys, d)
    BY <2>1
  <2>4. new[1] = v /\ new[0] = store[0] /\ new[COUNTER_ID] = store[COUNTER_ID]
    BY <1>1, <1>5, <2>2
  <2> QED
    BY <1>1, <1>5, <2>1, <2>2, <2>4 DEF Held
<1>6. CASE n >= 4 /\ d = 0
  <2>1. im = <<n - 3, KeyAt(keys, n - 3)>>
    BY <1>1, <1>2, <1>6, ImportsAt
  <2>2. im[1] = n - 3 /\ im[2] = KeyAt(keys, n - 3) /\ n - 3 \in Nat \ {0}
    BY <2>1, <1>2, <1>6
  <2>5. n - 3 \in 1 .. LastId + 1
    BY <1>1, <1>2, <1>6, ImportsAt DEF IsTable
  <2>3. /\ new[n - 3] = v
        /\ new[0] = store[0]
        /\ new[COUNTER_ID] = store[COUNTER_ID]
        /\ \A i \in 0 .. LastId + 1 : i # n - 3 => new[i] = store[i]
    BY <1>1, <2>2, <2>5
  <2>4. ASSUME NEW i \in 1 .. LastId + 1
        PROVE  /\ i + 3 <= n - 1 => (i # n - 3 /\ store[i] = KeyAt(keys, i))
               /\ (i + 3 <= n => (i = n - 3 \/ i + 3 <= n - 1))
    BY <1>1, <1>2, <1>6 DEF Held
  <2> QED
    BY <1>1, <1>2, <1>6, <2>2, <2>3, <2>4 DEF Held
<1> QED
  BY <1>2, <1>3, <1>4, <1>5, <1>6
-----------------------------------------------------------------------------
(* The inductive invariant.                                                *)

\* Nothing is generated or flashed at first.
LEMMA InitIInv == Init => IInv
<1> SUFFICES ASSUME Init PROVE IInv
  OBVIOUS
<1>1. ShapeOK
  BY ProvisioningAssumption DEF Init, ShapeOK, Nothing, Ids
<1>2. BenchInv
  BY DEF Init, BenchInv, Nothing
<1>3. DoneInv
  BY DEF Init, DoneInv
<1> QED
  BY <1>1, <1>2, <1>3 DEF IInv

\* main starts from the first import, or from the second if a counter is stored:
\* everything before that is in place.
LEMMA MainStarts ==
    ASSUME NEW d \in Ids, NEW keys, IsTable(keys)
    PROVE  /\ Main(d, keys).device = d
           /\ Main(d, keys).keys = keys
           /\ Main(d, keys).phase = "destroy"
           /\ DOMAIN Main(d, keys) = {"device", "keys", "at", "phase"}
           /\ Main(d, keys).at \in 1 .. Len(Imports(d, keys))
           /\ \A store : Held(store, d, keys, Main(d, keys).at - 1)
<1>1. Main(d, keys).at \in {1, 2}
  BY DEF Main
<1>2. Len(Imports(d, keys)) \in Nat /\ Len(Imports(d, keys)) >= 2
  BY ImportsAt, ProvisioningAssumption DEF IsTable
<1>3. \A store : \A at \in {1, 2} : Held(store, d, keys, at - 1)
  BY ProvisioningAssumption DEF Held, Ids
<1> QED
  BY <1>1, <1>2, <1>3 DEF Main

\* Flash and PowerCycle: main starts on device d.
LEMMA StartIInv ==
    ASSUME IInv, NEW d \in Ids, NEW keys, IsTable(keys),
           bench' = Main(d, keys), done' = [done EXCEPT ![d] = <<>>],
           UNCHANGED <<keys_obj, generated, psa>>
    PROVE  IInv'
<1>1. ShapeOK'
  BY MainStarts DEF IInv, ShapeOK
<1>2. done'[d] = <<>>
  BY DEF IInv, ShapeOK
<1>3. BenchInv'
  BY <1>2, MainStarts DEF BenchInv
<1>4. DoneInv'
  BY <1>2 DEF IInv, DoneInv, ShapeOK
<1> QED
  BY <1>1, <1>3, <1>4 DEF IInv

\* The import at which main stands concerns no device that is done.
LEMMA BenchImport ==
    ASSUME IInv, bench.phase \in {"destroy", "import"}, NEW v,
           psa' = [psa EXCEPT ![bench.device][Current[1]] = v],
           keys_obj' = keys_obj
    PROVE  /\ DOMAIN psa' = Ids /\ \A d \in Ids : DOMAIN psa'[d] = PsaIds
           /\ \A d \in Ids \ {bench.device} : psa'[d] = psa[d]
           /\ Held(psa'[bench.device], bench.device, bench.keys, bench.at - 1)
           /\ v = Current[2] =>
                 Held(psa'[bench.device], bench.device, bench.keys, bench.at)
<1>1. /\ bench.device \in Ids /\ IsTable(bench.keys)
      /\ bench.at \in 1 .. Len(Imports(bench.device, bench.keys))
      /\ DOMAIN psa[bench.device] = PsaIds
      /\ Held(psa[bench.device], bench.device, bench.keys, bench.at - 1)
  BY DEF IInv, ShapeOK, BenchInv
<1>2. psa'[bench.device] = [psa[bench.device] EXCEPT ![Current[1]] = v]
  BY <1>1 DEF IInv, ShapeOK
<1>3. /\ Held(psa'[bench.device], bench.device, bench.keys, bench.at - 1)
      /\ v = Current[2] =>
            Held(psa'[bench.device], bench.device, bench.keys, bench.at)
  <2>1. Current = Imports(bench.device, bench.keys)[bench.at]
    BY DEF Current
  <2>2. PICK d, keys, n, store, im, new :
           /\ d = bench.device /\ keys = bench.keys /\ n = bench.at
           /\ store = psa[bench.device] /\ im = Current /\ new = psa'[bench.device]
    OBVIOUS
  <2>3. Held(new, d, keys, n - 1) /\ (v = im[2] => Held(new, d, keys, n))
    <3>1. /\ d \in Ids /\ IsTable(keys) /\ n \in 1 .. Len(Imports(d, keys))
          /\ DOMAIN store = PsaIds /\ Held(store, d, keys, n - 1)
          /\ im = Imports(d, keys)[n] /\ new = [store EXCEPT ![im[1]] = v]
      BY ONLY <1>1, <1>2, <2>1, <2>2
    <3> QED
      BY ONLY <3>1, ImportKeeps
  <2> QED
    BY ONLY <2>2, <2>3
<1>4. DOMAIN psa' = Ids /\ (\A d \in Ids : DOMAIN psa'[d] = PsaIds)
         /\ \A d \in Ids \ {bench.device} : psa'[d] = psa[d]
  BY <1>1 DEF IInv, ShapeOK
<1> QED
  BY <1>3, <1>4

\* Every step keeps the invariant.
LEMMA NextIInv == IInv /\ [Next]_vars => IInv'
<1> SUFFICES ASSUME IInv, [Next]_vars PROVE IInv'
  OBVIOUS
<1> USE DEF IInv
<1>1. ASSUME NEW id \in Names, GenerateKey(id) PROVE IInv'
  <2>1. ShapeOK'
    BY <1>1 DEF GenerateKey, ShapeOK
  <2>2. BenchInv' /\ DoneInv'
    BY <1>1 DEF GenerateKey, BenchInv, DoneInv
  <2> QED
    BY <2>1, <2>2
<1>2. ASSUME NEW d \in Ids, Flash(d) PROVE IInv'
  BY <1>2, DumpIsTable, StartIInv DEF Flash
<1>3. CASE DestroyKey
  <2>1. /\ bench.phase = "destroy" /\ bench' = [bench EXCEPT !.phase = "import"]
        /\ psa' = [psa EXCEPT ![bench.device][Current[1]] = NoKey]
        /\ UNCHANGED <<keys_obj, generated, done>>
    BY <1>3 DEF DestroyKey
  <2>2. /\ bench'.device = bench.device /\ bench'.keys = bench.keys
        /\ bench'.at = bench.at /\ bench'.phase = "import"
        /\ DOMAIN bench' = DOMAIN bench
    BY <2>1 DEF ShapeOK
  <2>3. ShapeOK'
    BY <2>1, <2>2, BenchImport DEF ShapeOK
  <2>4. BenchInv'
    BY <2>1, <2>2, BenchImport DEF BenchInv
  <2>5. DoneInv'
    BY <2>1, BenchImport DEF DoneInv, BenchInv
  <2> QED
    BY <2>3, <2>4, <2>5
<1>4. CASE ImportKey
  <2>1. /\ bench.phase = "import"
        /\ psa' = [psa EXCEPT ![bench.device][Current[1]] = Current[2]]
        /\ UNCHANGED <<keys_obj, generated>>
    BY <1>4 DEF ImportKey
  <2>2. /\ bench.device \in Ids /\ bench.at \in Nat /\ IsTable(bench.keys)
        /\ done[bench.device] = <<>>
        /\ bench.at \in 1 .. Len(Imports(bench.device, bench.keys))
    BY <2>1 DEF ShapeOK, BenchInv
  <2>3. CASE bench.at = Len(Imports(bench.device, bench.keys))
    <3>1. /\ bench' = [bench EXCEPT !.phase = "finished"]
          /\ done' = [done EXCEPT ![bench.device] = bench.keys]
      BY <1>4, <2>3 DEF ImportKey
    <3>2. /\ bench'.device = bench.device /\ bench'.keys = bench.keys
          /\ bench'.at = bench.at /\ bench'.phase = "finished"
          /\ DOMAIN bench' = DOMAIN bench
      BY <3>1 DEF ShapeOK
    <3>3. ShapeOK'
      BY <2>1, <3>1, <3>2, BenchImport DEF ShapeOK
    <3>4. BenchInv'
      BY <2>2, <3>2 DEF BenchInv
    <3>5. DoneInv'
      <4>1. /\ done'[bench.device] = bench.keys
            /\ \A d \in Ids \ {bench.device} : done'[d] = done[d]
        BY <2>2, <3>1 DEF ShapeOK
      <4>2. /\ \A d \in Ids \ {bench.device} : psa'[d] = psa[d]
            /\ Held(psa'[bench.device], bench.device, bench.keys, bench.at)
        BY <2>1, BenchImport
      <4>3. ASSUME NEW d \in Ids, done'[d] # <<>>
            PROVE  /\ IsTable(done'[d])
                   /\ Held(psa'[d], d, done'[d], Len(Imports(d, done'[d])))
        <5>1. CASE d = bench.device
          BY <2>2, <2>3, <4>1, <4>2, <5>1
        <5>2. CASE d # bench.device
          BY <4>1, <4>2, <4>3, <5>2 DEF DoneInv
        <5> QED
          BY <5>1, <5>2
      <4> QED
        BY <4>3 DEF DoneInv
    <3> QED
      BY <3>3, <3>4, <3>5
  <2>4. CASE bench.at # Len(Imports(bench.device, bench.keys))
    <3>1. /\ bench' = [bench EXCEPT !.at = @ + 1, !.phase = "destroy"]
          /\ done' = done
      BY <1>4, <2>4 DEF ImportKey
    <3>2. /\ bench'.device = bench.device /\ bench'.keys = bench.keys
          /\ bench'.at = bench.at + 1 /\ bench'.phase = "destroy"
          /\ DOMAIN bench' = DOMAIN bench
      BY <3>1 DEF ShapeOK
    <3>3. ShapeOK'
      BY <2>1, <2>2, <3>1, <3>2, BenchImport DEF ShapeOK
    <3>4. /\ bench'.at \in 1 .. Len(Imports(bench.device, bench.keys))
          /\ bench'.at - 1 = bench.at
      BY <2>2, <2>4, <3>2, ImportsAt, ProvisioningAssumption DEF IsTable
    <3>5. BenchInv'
      BY <2>1, <2>2, <3>1, <3>2, <3>4, BenchImport DEF BenchInv
    <3>6. DoneInv'
      BY <2>1, <2>2, <3>1, BenchImport DEF DoneInv
    <3> QED
      BY <3>3, <3>5, <3>6
  <2> QED
    BY <2>3, <2>4
<1>5. CASE PsaFails
  <2>1. /\ bench.phase \in {"destroy", "import"}
        /\ bench'.device = bench.device /\ bench'.keys = bench.keys
        /\ bench'.at = bench.at /\ bench'.phase = "failed"
        /\ DOMAIN bench' = DOMAIN bench
        /\ UNCHANGED <<keys_obj, generated, psa, done>>
    BY <1>5 DEF PsaFails, ShapeOK
  <2>2. ShapeOK'
    BY <2>1 DEF ShapeOK
  <2>3. BenchInv' /\ DoneInv'
    BY <2>1 DEF BenchInv, DoneInv
  <2> QED
    BY <2>2, <2>3
<1>6. CASE PowerCycle
  <2>1. bench.device \in Ids /\ IsTable(bench.keys)
    BY <1>6 DEF PowerCycle, ShapeOK, BenchInv
  <2> QED
    BY <1>6, <2>1, StartIInv DEF PowerCycle
<1>7. CASE Unplug
  <2>1. ShapeOK'
    BY <1>7, ProvisioningAssumption DEF Unplug, Nothing, ShapeOK, Ids
  <2>2. BenchInv' /\ DoneInv'
    BY <1>7 DEF Unplug, Nothing, BenchInv, DoneInv
  <2> QED
    BY <2>1, <2>2
<1>8. CASE UNCHANGED vars
  BY <1>8 DEF vars, ShapeOK, BenchInv, DoneInv
<1> QED
  BY <1>1, <1>2, <1>3, <1>4, <1>5, <1>6, <1>7, <1>8 DEF Next, Flasher

\* Two devices that are done hold what Authenticate compares.
LEMMA IInvAgrees == IInv => SameTableAgrees
<1> SUFFICES ASSUME IInv PROVE SameTableAgrees
  OBVIOUS
<1>1. ASSUME NEW d \in Ids, done[d] # <<>>
      PROVE  /\ IsTable(done[d])
             /\ psa[d][COUNTER_ID] = 0
             /\ psa[d][0] = KeyAt(done[d], 0)
             /\ d # 0 => psa[d][1] = KeyAt(done[d], d)
             /\ d = 0 => \A i \in Ids \ {0} :
                            i < Len(done[d]) => psa[0][i] = KeyAt(done[d], i)
  <2>1. IsTable(done[d]) /\ Held(psa[d], d, done[d], Len(Imports(d, done[d])))
    BY <1>1 DEF IInv, DoneInv
  <2>2. /\ Len(Imports(d, done[d])) = IF d = 0 THEN Len(done[d]) + 2 ELSE 4
        /\ Len(done[d]) \in Nat \ {0}
        /\ \A i \in Ids \ {0} : i \in Nat /\ i \in 1 .. LastId + 1
    <3>1. Len(Imports(d, done[d])) = IF d = 0 THEN Len(done[d]) + 2 ELSE 4
      BY ONLY <2>1, d \in Ids, ImportsAt
    <3> QED
      BY <2>1, <3>1, ProvisioningAssumption DEF IsTable, Ids
  <2> QED
    BY <2>1, <2>2 DEF Held
<1>2. 0 \in Ids /\ \A d \in Ids : d \in Nat
  BY ProvisioningAssumption DEF Ids
<1>3. ASSUME NEW d \in Ids \ {0}, done[d] = done[0], d < Len(done[d])
      PROVE  Authenticate(d)
  <2>1. done[d] # <<>>
    BY <1>2, <1>3
  <2> QED
    BY <1>1, <1>2, <1>3, <2>1 DEF Authenticate
<1> QED
  BY <1>1, <1>3 DEF SameTableAgrees

\* crypto_flasher: devices flashed in full from the same table authenticate each
\* other and start from counter 0, for every number of devices and of power losses
\* and PSA errors on the way.
THEOREM TablesAgree == Spec => []SameTableAgrees
<1>1. Init => IInv
  BY InitIInv
<1>2. IInv /\ [Next]_vars => IInv'
  BY NextIInv
<1>3. IInv => SameTableAgrees
  BY IInvAgrees
<1> QED
  BY <1>1, <1>2, <1>3, PTL DEF Spec
=============================================================================
