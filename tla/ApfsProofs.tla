------------------------------ MODULE ApfsProofs ------------------------------
(***************************************************************************)
(* The APFS driver and the APFS volumes, for any handles, errors of the    *)
(* firmware, sizes, limits and numbers of runs.                            *)
(***************************************************************************)
EXTENDS ApfsDriver, ApfsVolumes, FiniteSetTheorems, SequenceTheorems, TLAPS

-----------------------------------------------------------------------------
(* The driver: the inductive invariant                                     *)

\* The types the argument needs.
DriverTypes ==
    /\ pc \in Labels
    /\ run \in 0..MaxRuns /\ (pc # "idle" => run # 0)
    /\ listed \subseteq Handles /\ pending \subseteq listed
    /\ found \in Handles \cup {NoHandle}
    /\ driver \in [Runs -> {"absent", "loaded", "running", "resident", "gone"}]
    /\ app \in [Runs -> {"absent", "loaded", "gone"}]

\* What the scan knows of the handles it has looked at.
Scanned ==
    /\ pc = "scan" /\ found = NoHandle => (listed \ pending) \cap apfs = {}
    /\ pc = "scan" /\ found # NoHandle => (listed \ pending) \cap apfs = {found}
    /\ pc \notin {"idle", "scan"} => listed \cap apfs = {found}

\* The guards of the frames on the stack.
GuardsByStep == pc \notin {"read", "compare", "self_path"} => guards = {}

\* The driver of the run under way, step by step.
DriverByStep ==
    /\ pc \in {"scan", "open", "read", "compare", "extracted", "load"} => driver[run] = "absent"
    /\ pc \in {"accept", "start"} => driver[run] = "loaded"
    /\ pc = "running" => driver[run] = "running"
    /\ pc \in {"connect", "volumes", "self", "self_path", "load_app"} => driver[run] = "resident"
    /\ pc # "idle" => app[run] = "absent"

\* What a run that is over has left behind.
Settled(r) ==
    /\ driver[r] # "running"
    /\ driver[r] = "loaded" => <<"driver", r>> \in refused
    /\ app[r] = "loaded" => driver[r] = "resident"

ImagesByRun ==
    /\ \A r \in Runs : r > run => driver[r] = "absent" /\ app[r] = "absent"
    /\ \A r \in Runs : r < run \/ pc = "idle" => Settled(r)
    /\ pc = "idle" /\ run # 0 /\ app[run] = "loaded" => status = Success \/ <<"app", run>> \in refused

DriverInv == DriverTypes /\ Scanned /\ GuardsByStep /\ DriverByStep /\ ImagesByRun

\* The blocks of both extractions in the order they are read.
Block(k) == IF k <= DriverBlocks THEN first[k] ELSE second[k - DriverBlocks]
BlocksRead == Len(first) + Len(second)

\* While the medium is the one the geometry was taken from, the blocks are
\* what two rewrites can make of them: content, then the other version, then
\* content again, where the first part is missing after one rewrite and the
\* second, too, before it.
Segments(a, b) ==
    /\ a <= b /\ b <= BlocksRead
    /\ \A k \in 1..BlocksRead : Block(k) = IF a < k /\ k <= b THEN 1 - content ELSE content
    /\ changes <= 1 => a = 0
    /\ changes = 0 => b = 0

ReaderTypes ==
    /\ content \in {0, 1} /\ mediaId \in Nat /\ geometry \in Nat
    /\ changes \in 0..MaxChanges
    /\ first \in Seq({0, 1}) /\ second \in Seq({0, 1})
    /\ Len(first) <= DriverBlocks /\ Len(second) <= DriverBlocks
    /\ Len(second) # 0 => Len(first) = DriverBlocks
    /\ pc \in {"scan", "open"} => first = <<>> /\ second = <<>>
    /\ pc = "read" => Len(second) < DriverBlocks
    /\ pc = "compare" => Len(second) = DriverBlocks
    /\ pc \in {"read", "compare"} => mediaId >= geometry

ReaderInv ==
    /\ ReaderTypes
    /\ pc \in {"read", "compare"} /\ mediaId = geometry => \E a, b \in Nat : Segments(a, b)
    /\ NoTornDriver

-----------------------------------------------------------------------------
(* The driver: the steps                                                   *)

\* Every step keeps the types of the driver search.
LEMMA DriverTypesStep ==
    ASSUME DriverTypes, [Next]_vars
    PROVE  DriverTypes'
<1> USE DEF DriverTypes, Labels, Finish, FailWith, Continue, scan, images
<1> USE ApfsDriverAssumption DEF Runs
<1>1. CASE Begin
  BY <1>1 DEF Begin
<1>2. CASE ScanHandle
  BY <1>2 DEF ScanHandle
<1>3. CASE ScanDone
  BY <1>3 DEF ScanDone
<1>4. CASE OpenReader
  BY <1>4 DEF OpenReader
<1>5. CASE Rewrite
  BY <1>5 DEF Rewrite
<1>6. CASE Exchange
  BY <1>6 DEF Exchange
<1>7. CASE ReadBlock
  BY <1>7 DEF ReadBlock
<1>8. CASE Compare
  BY <1>8 DEF Compare
<1>9. CASE Extracted
  BY <1>9 DEF Extracted
<1>10. CASE LoadDriver
  BY <1>10 DEF LoadDriver
<1>11. CASE AcceptDriver
  BY <1>11 DEF AcceptDriver, UnloadDriver
<1>12. CASE StartDriver
  BY <1>12 DEF StartDriver, UnloadDriver
<1>13. CASE DriverReturns
  BY <1>13 DEF DriverReturns
<1>14. CASE Connect
  BY <1>14 DEF Connect
<1>15. CASE Volumes
  BY <1>15 DEF Volumes
<1>16. CASE OpenSelf
  BY <1>16 DEF OpenSelf
<1>17. CASE CheckSelf
  BY <1>17 DEF CheckSelf
<1>18. CASE LoadApp
  BY <1>18 DEF LoadApp
<1>19. CASE Finished
  BY <1>19 DEF Finished, vars
<1>20. CASE UNCHANGED vars
  BY <1>20 DEF vars
<1> QED
  BY <1>1, <1>2, <1>3, <1>4, <1>5, <1>6, <1>7, <1>8, <1>9, <1>10, <1>11, <1>12, <1>13, <1>14,
     <1>15,
     <1>16, <1>17, <1>18, <1>19, <1>20 DEF Next

\* What the scan of the handles has counted stays right, also while it runs.
LEMMA ScannedStep ==
    ASSUME DriverTypes, Scanned, [Next]_vars
    PROVE  Scanned'
<1> USE DEF Scanned, Finish, FailWith, Continue, scan
<1>1. CASE Begin
  BY <1>1 DEF Begin
<1>2. CASE ScanHandle
  <2>1. pc = "scan" /\ UNCHANGED <<apfs, listed>> /\ pc' \in {"scan", "idle"}
    BY <1>2 DEF ScanHandle
  <2>2. CASE pc' = "idle"
    BY <2>2
  <2>3. CASE pc' = "scan"
    <3>1. PICK h \in pending :
            /\ ~(h \in apfs /\ found # NoHandle)
            /\ found' = IF h \in apfs THEN h ELSE found
            /\ pending' = pending \ {h}
      BY <1>2, <2>3 DEF ScanHandle
    <3>2. (listed \ pending') = (listed \ pending) \cup {h}
      BY <3>1 DEF DriverTypes
    <3>3. h \in Handles /\ h # NoHandle
      BY <3>1, ApfsDriverAssumption DEF DriverTypes
    <3> QED
      BY <2>1, <2>3, <3>1, <3>2, <3>3
  <2> QED
    BY <2>1, <2>2, <2>3
<1>3. CASE ScanDone
  BY <1>3 DEF ScanDone
<1>4. CASE OpenReader
  BY <1>4 DEF OpenReader
<1>5. CASE Rewrite
  BY <1>5 DEF Rewrite
<1>6. CASE Exchange
  BY <1>6 DEF Exchange
<1>7. CASE ReadBlock
  BY <1>7 DEF ReadBlock
<1>8. CASE Compare
  BY <1>8 DEF Compare
<1>9. CASE Extracted
  BY <1>9 DEF Extracted
<1>10. CASE LoadDriver
  BY <1>10 DEF LoadDriver
<1>11. CASE AcceptDriver
  BY <1>11 DEF AcceptDriver
<1>12. CASE StartDriver
  BY <1>12 DEF StartDriver
<1>13. CASE DriverReturns
  BY <1>13 DEF DriverReturns
<1>14. CASE Connect
  BY <1>14 DEF Connect
<1>15. CASE Volumes
  BY <1>15 DEF Volumes
<1>16. CASE OpenSelf
  BY <1>16 DEF OpenSelf
<1>17. CASE CheckSelf
  BY <1>17 DEF CheckSelf
<1>18. CASE LoadApp
  BY <1>18 DEF LoadApp
<1>19. CASE Finished
  BY <1>19 DEF Finished, vars
<1>20. CASE UNCHANGED vars
  BY <1>20 DEF vars
<1> QED
  BY <1>1, <1>2, <1>3, <1>4, <1>5, <1>6, <1>7, <1>8, <1>9, <1>10, <1>11, <1>12, <1>13, <1>14,
     <1>15,
     <1>16, <1>17, <1>18, <1>19, <1>20 DEF Next

\* The guards of the frames on the stack follow from the step.
LEMMA GuardsStep ==
    ASSUME GuardsByStep, [Next]_vars
    PROVE  GuardsByStep'
<1> USE DEF GuardsByStep, Finish, FailWith, Continue
<1>1. CASE Begin
  BY <1>1 DEF Begin
<1>2. CASE ScanHandle
  BY <1>2 DEF ScanHandle
<1>3. CASE ScanDone
  BY <1>3 DEF ScanDone
<1>4. CASE OpenReader
  BY <1>4 DEF OpenReader
<1>5. CASE Rewrite
  BY <1>5 DEF Rewrite
<1>6. CASE Exchange
  BY <1>6 DEF Exchange
<1>7. CASE ReadBlock
  BY <1>7 DEF ReadBlock
<1>8. CASE Compare
  BY <1>8 DEF Compare
<1>9. CASE Extracted
  BY <1>9 DEF Extracted
<1>10. CASE LoadDriver
  BY <1>10 DEF LoadDriver
<1>11. CASE AcceptDriver
  BY <1>11 DEF AcceptDriver
<1>12. CASE StartDriver
  BY <1>12 DEF StartDriver
<1>13. CASE DriverReturns
  BY <1>13 DEF DriverReturns
<1>14. CASE Connect
  BY <1>14 DEF Connect
<1>15. CASE Volumes
  BY <1>15 DEF Volumes
<1>16. CASE OpenSelf
  BY <1>16 DEF OpenSelf
<1>17. CASE CheckSelf
  BY <1>17 DEF CheckSelf
<1>18. CASE LoadApp
  BY <1>18 DEF LoadApp
<1>19. CASE Finished
  BY <1>19 DEF Finished, vars
<1>20. CASE UNCHANGED vars
  BY <1>20 DEF vars
<1> QED
  BY <1>1, <1>2, <1>3, <1>4, <1>5, <1>6, <1>7, <1>8, <1>9, <1>10, <1>11, <1>12, <1>13, <1>14,
     <1>15,
     <1>16, <1>17, <1>18, <1>19, <1>20 DEF Next

\* How far the driver has come follows from the step and the run.
LEMMA DriverByStepStep ==
    ASSUME DriverTypes, ImagesByRun, DriverByStep, [Next]_vars
    PROVE  DriverByStep'
<1> USE DEF DriverByStep, Finish, FailWith, Continue, images
<1> USE ApfsDriverAssumption DEF Runs
<1>1. CASE Begin
  BY <1>1 DEF Begin, DriverTypes, ImagesByRun
<1>2. CASE ScanHandle
  BY <1>2 DEF ScanHandle
<1>3. CASE ScanDone
  BY <1>3 DEF ScanDone
<1>4. CASE OpenReader
  BY <1>4 DEF OpenReader
<1>5. CASE Rewrite
  BY <1>5 DEF Rewrite
<1>6. CASE Exchange
  BY <1>6 DEF Exchange
<1>7. CASE ReadBlock
  BY <1>7 DEF ReadBlock
<1>8. CASE Compare
  BY <1>8 DEF Compare
<1>9. CASE Extracted
  BY <1>9 DEF Extracted
<1>10. CASE LoadDriver
  BY <1>10 DEF LoadDriver, DriverTypes
<1>11. CASE AcceptDriver
  BY <1>11 DEF AcceptDriver
<1>12. CASE StartDriver
  BY <1>12 DEF StartDriver, DriverTypes
<1>13. CASE DriverReturns
  BY <1>13 DEF DriverReturns, DriverTypes
<1>14. CASE Connect
  BY <1>14 DEF Connect
<1>15. CASE Volumes
  BY <1>15 DEF Volumes
<1>16. CASE OpenSelf
  BY <1>16 DEF OpenSelf
<1>17. CASE CheckSelf
  BY <1>17 DEF CheckSelf
<1>18. CASE LoadApp
  BY <1>18 DEF LoadApp
<1>19. CASE Finished
  BY <1>19 DEF Finished, vars
<1>20. CASE UNCHANGED vars
  BY <1>20 DEF vars
<1> QED
  BY <1>1, <1>2, <1>3, <1>4, <1>5, <1>6, <1>7, <1>8, <1>9, <1>10, <1>11, <1>12, <1>13, <1>14,
     <1>15,
     <1>16, <1>17, <1>18, <1>19, <1>20 DEF Next

\* The images of earlier runs are gone, or their unloading was refused.
LEMMA ImagesStep ==
    ASSUME DriverTypes, DriverByStep, ImagesByRun, [Next]_vars
    PROVE  ImagesByRun'
<1> USE DEF ImagesByRun, Settled, DriverTypes, DriverByStep, Finish, FailWith, Continue, images,
       UnloadDriver
<1> USE ApfsDriverAssumption DEF Runs
<1>1. CASE Begin
  BY <1>1 DEF Begin
<1>2. CASE ScanHandle
  BY <1>2 DEF ScanHandle
<1>3. CASE ScanDone
  BY <1>3 DEF ScanDone
<1>4. CASE OpenReader
  BY <1>4 DEF OpenReader
<1>5. CASE Rewrite
  BY <1>5 DEF Rewrite
<1>6. CASE Exchange
  BY <1>6 DEF Exchange
<1>7. CASE ReadBlock
  BY <1>7 DEF ReadBlock
<1>8. CASE Compare
  BY <1>8 DEF Compare
<1>9. CASE Extracted
  BY <1>9 DEF Extracted
<1>10. CASE LoadDriver
  BY <1>10 DEF LoadDriver
<1>11. CASE AcceptDriver
  BY <1>11 DEF AcceptDriver
<1>12. CASE StartDriver
  BY <1>12 DEF StartDriver
<1>13. CASE DriverReturns
  BY <1>13 DEF DriverReturns
<1>14. CASE Connect
  BY <1>14 DEF Connect
<1>15. CASE Volumes
  BY <1>15 DEF Volumes
<1>16. CASE OpenSelf
  BY <1>16 DEF OpenSelf
<1>17. CASE CheckSelf
  BY <1>17 DEF CheckSelf
<1>18. CASE LoadApp
  BY <1>18 DEF LoadApp
<1>19. CASE Finished
  BY <1>19 DEF Finished, vars
<1>20. CASE UNCHANGED vars
  BY <1>20 DEF vars
<1> QED
  BY <1>1, <1>2, <1>3, <1>4, <1>5, <1>6, <1>7, <1>8, <1>9, <1>10, <1>11, <1>12, <1>13, <1>14,
     <1>15,
     <1>16, <1>17, <1>18, <1>19, <1>20 DEF Next

-----------------------------------------------------------------------------
(* The driver: what is read                                                *)

\* Every step keeps the types of the two extractions.
LEMMA ReaderTypesStep ==
    ASSUME DriverTypes, ReaderTypes, [Next]_vars
    PROVE  ReaderTypes'
<1> USE DEF ReaderTypes, Finish, FailWith, Continue, medium, reader
<1> USE ApfsDriverAssumption
<1>1. CASE Begin
  BY <1>1 DEF Begin
<1>2. CASE ScanHandle
  BY <1>2 DEF ScanHandle
<1>3. CASE ScanDone
  BY <1>3 DEF ScanDone
<1>4. CASE OpenReader
  BY <1>4 DEF OpenReader
<1>5. CASE Rewrite
  BY <1>5 DEF Rewrite
<1>6. CASE Exchange
  BY <1>6 DEF Exchange
<1>7. CASE ReadBlock
  <2>1. CASE UNCHANGED <<first, second>> /\ pc' = "idle"
    BY <1>7, <2>1 DEF ReadBlock
  <2>2. CASE ~(UNCHANGED <<first, second>> /\ pc' = "idle")
    <3>0. /\ mediaId = geometry /\ pc = "read" /\ UNCHANGED <<content, mediaId, changes, geometry>>
          /\ pc' = IF Len(second') = DriverBlocks THEN "compare" ELSE "read"
      BY <1>7, <2>2 DEF ReadBlock
    <3>1. CASE Len(first) < DriverBlocks
      <4>1. first' = Append(first, content) /\ second' = second
        BY <1>7, <2>2, <3>1 DEF ReadBlock
      <4>2. first' \in Seq({0, 1}) /\ Len(first') = Len(first) + 1
        BY <4>1
      <4>3. Len(second) = 0
        BY <3>1
      <4> QED
        BY <3>0, <3>1, <4>1, <4>2, <4>3
    <3>2. CASE ~(Len(first) < DriverBlocks)
      <4>1. second' = Append(second, content) /\ first' = first
        BY <1>7, <2>2, <3>2 DEF ReadBlock
      <4>2. second' \in Seq({0, 1}) /\ Len(second') = Len(second) + 1
        BY <4>1
      <4>3. Len(first) = DriverBlocks
        BY <3>2
      <4>4. Len(second) < DriverBlocks
        BY <3>0, <3>2
      <4> QED
        BY <3>0, <3>2, <4>1, <4>2, <4>3, <4>4
    <3> QED
      BY <3>1, <3>2
  <2> QED
    BY <2>1, <2>2
<1>8. CASE Compare
  BY <1>8 DEF Compare
<1>9. CASE Extracted
  BY <1>9 DEF Extracted
<1>10. CASE LoadDriver
  BY <1>10 DEF LoadDriver
<1>11. CASE AcceptDriver
  BY <1>11 DEF AcceptDriver
<1>12. CASE StartDriver
  BY <1>12 DEF StartDriver
<1>13. CASE DriverReturns
  BY <1>13 DEF DriverReturns
<1>14. CASE Connect
  BY <1>14 DEF Connect
<1>15. CASE Volumes
  BY <1>15 DEF Volumes
<1>16. CASE OpenSelf
  BY <1>16 DEF OpenSelf
<1>17. CASE CheckSelf
  BY <1>17 DEF CheckSelf
<1>18. CASE LoadApp
  BY <1>18 DEF LoadApp
<1>19. CASE Finished
  BY <1>19 DEF Finished, vars
<1>20. CASE UNCHANGED vars
  BY <1>20 DEF vars
<1> QED
  BY <1>1, <1>2, <1>3, <1>4, <1>5, <1>6, <1>7, <1>8, <1>9, <1>10, <1>11, <1>12, <1>13, <1>14,
     <1>15,
     <1>16, <1>17, <1>18, <1>19, <1>20 DEF Next

\* A block that is read is added to the last part.
LEMMA SegmentRead ==
    ASSUME ReaderTypes, ReaderTypes', NEW a \in Nat, NEW b \in Nat, Segments(a, b), pc = "read",
           UNCHANGED <<content, changes>>,
           IF Len(first) < DriverBlocks
           THEN first' = Append(first, content) /\ UNCHANGED second
           ELSE second' = Append(second, content) /\ UNCHANGED first
    PROVE  Segments(a, b)'
<1>0. /\ first \in Seq({0, 1}) /\ second \in Seq({0, 1}) /\ content \in {0, 1}
      /\ Len(first) \in Nat /\ Len(second) \in Nat /\ DriverBlocks \in Nat
      /\ Len(first) <= DriverBlocks /\ (Len(second) # 0 => Len(first) = DriverBlocks)
  BY ApfsDriverAssumption DEF ReaderTypes
<1>1. PICK n \in Nat : n = BlocksRead /\ n = Len(first) + Len(second)
  <2>1. Len(first) + Len(second) \in Nat
    BY <1>0
  <2> QED
    BY <2>1 DEF BlocksRead
<1>2. /\ BlocksRead' = n + 1 /\ Block(n + 1)' = content
      /\ \A k \in 1..n : Block(k)' = Block(k)
  <2>1. CASE Len(first) < DriverBlocks
    <3>1. Len(second) = 0 /\ n = Len(first)
      BY <1>0, <1>1, <2>1
    <3>2. /\ first' = Append(first, content) /\ Len(first') = n + 1 /\ first'[n + 1] = content
          /\ \A k \in 1..n : first'[k] = first[k]
      BY <1>0, <2>1, <3>1
    <3>3. BlocksRead' = n + 1
      BY <2>1, <3>1, <3>2, <1>0 DEF BlocksRead
    <3>4. Block(n + 1)' = content
      <4>1. n + 1 <= DriverBlocks
        BY <1>0, <2>1, <3>1
      <4> QED
        BY <3>2, <4>1 DEF Block
    <3>5. ASSUME NEW k \in 1..n
          PROVE  Block(k)' = Block(k)
      <4>1. k <= DriverBlocks
        BY <1>0, <2>1, <3>1
      <4> QED
        BY <3>2, <4>1 DEF Block
    <3> QED
      BY <3>3, <3>4, <3>5
  <2>2. CASE ~(Len(first) < DriverBlocks)
    <3>1. Len(first) = DriverBlocks /\ n = DriverBlocks + Len(second)
      BY <1>0, <1>1, <2>2
    <3>2. /\ second' = Append(second, content) /\ Len(second') = Len(second) + 1
          /\ second'[Len(second) + 1] = content
          /\ \A k \in 1..Len(second) : second'[k] = second[k]
          /\ first' = first
      <4>1. second' = Append(second, content) /\ first' = first
        BY <2>2
      <4>2. /\ Len(Append(second, content)) = Len(second) + 1
            /\ Append(second, content)[Len(second) + 1] = content
            /\ \A k \in 1..Len(second) : Append(second, content)[k] = second[k]
        BY <1>0
      <4> QED
        BY <4>1, <4>2
    <3>3. BlocksRead' = n + 1
      <4>1. BlocksRead' = Len(first) + (Len(second) + 1)
        BY <3>2 DEF BlocksRead
      <4> QED
        BY <1>0, <3>1, <4>1
    <3>4. Block(n + 1)' = content
      <4>1. ~(n + 1 <= DriverBlocks) /\ (n + 1) - DriverBlocks = Len(second) + 1
        BY <1>0, <3>1
      <4> QED
        BY <3>2, <4>1 DEF Block
    <3>5. ASSUME NEW k \in 1..n
          PROVE  Block(k)' = Block(k)
      <4>1. CASE k <= DriverBlocks
        BY <3>2, <4>1 DEF Block
      <4>2. CASE ~(k <= DriverBlocks)
        <5>1. k - DriverBlocks \in 1..Len(second)
          BY <1>0, <3>1, <4>2
        <5> QED
          BY <3>2, <4>2, <5>1 DEF Block
      <4> QED
        BY <4>1, <4>2
    <3> QED
      BY <3>3, <3>4, <3>5
  <2> QED
    BY <2>1, <2>2
<1>3. a <= b /\ b <= n
  BY <1>1 DEF Segments
<1>4. ASSUME NEW k \in 1..(n + 1)
      PROVE  Block(k)' = IF a < k /\ k <= b THEN 1 - content ELSE content
  <2>1. CASE k = n + 1
    <3>1. ~(k <= b)
      BY <1>3, <2>1
    <3>2. Block(n + 1)' = content
      BY <1>2
    <3> QED
      BY <2>1, <3>1, <3>2
  <2>2. CASE k # n + 1
    <3>1. k \in 1..n
      BY <1>3, <2>2
    <3> QED
      BY <1>1, <1>2, <3>1 DEF Segments
  <2> QED
    BY <2>1, <2>2
<1> QED
  BY <1>2, <1>3, <1>4 DEF Segments

\* A rewrite makes everything read so far one part longer.
LEMMA SegmentRewrite ==
    ASSUME ReaderTypes, MaxChanges <= 2, NEW a \in Nat, NEW b \in Nat, Segments(a, b),
           changes < MaxChanges, changes' = changes + 1, content' = 1 - content,
           UNCHANGED <<first, second>>
    PROVE  BlocksRead \in Nat /\ Segments(b, BlocksRead)'
<1> DEFINE n == BlocksRead
<1>1. n \in Nat /\ n' = n
  BY DEF ReaderTypes, BlocksRead
<1>2. changes \in {0, 1} /\ a = 0 /\ (changes = 0 => b = 0) /\ b <= n
  BY ApfsDriverAssumption DEF ReaderTypes, Segments
<1>3. 1 - content' = content
  BY DEF ReaderTypes
<1>4. ASSUME NEW k \in 1..n
      PROVE  Block(k)' = IF b < k /\ k <= n THEN 1 - content' ELSE content'
  <2>1. Block(k)' = Block(k)
    BY DEF Block
  <2>2. Block(k) = IF a < k /\ k <= b THEN 1 - content ELSE content
    BY DEF Segments
  <2> QED
    BY <1>1, <1>2, <1>3, <2>1, <2>2
<1> QED
  BY <1>1, <1>2, <1>4 DEF Segments

\* Two extractions that agree have no torn block: a change inside the first
\* is repeated inside the second, and a third lies between them.
LEMMA EqualIsWhole ==
    ASSUME ReaderTypes, pc = "compare", NEW a \in Nat, NEW b \in Nat, Segments(a, b), first = second
    PROVE  \A i \in 1..DriverBlocks : first[i] = first[1]
<1> SUFFICES ASSUME NEW i \in 1..DriverBlocks, first[i] # first[1]
             PROVE  FALSE
  OBVIOUS
<1> DEFINE n == DriverBlocks
<1>1. n \in Nat \ {0} /\ i \in 1..n /\ i # 1
  BY ApfsDriverAssumption
<1>2. BlocksRead = n + n
  BY <1>1 DEF ReaderTypes, BlocksRead
<1>3. /\ 1 \in 1..(n + n) /\ i \in 1..(n + n)
      /\ n + 1 \in 1..(n + n) /\ n + i \in 1..(n + n)
      /\ 1 <= n /\ i <= n /\ ~(n + 1 <= n) /\ ~(n + i <= n)
      /\ (n + 1) - n = 1 /\ (n + i) - n = i
  BY <1>1
<1>4. /\ Block(1) = first[1] /\ Block(i) = first[i]
      /\ Block(n + 1) = first[1] /\ Block(n + i) = first[i]
  BY <1>3 DEF Block
<1>5. \A k \in 1..(n + n) : Block(k) = IF a < k /\ k <= b THEN 1 - content ELSE content
  BY <1>2 DEF Segments
<1>6. /\ first[1] = IF a < 1 /\ 1 <= b THEN 1 - content ELSE content
      /\ first[i] = IF a < i /\ i <= b THEN 1 - content ELSE content
      /\ first[1] = IF a < n + 1 /\ n + 1 <= b THEN 1 - content ELSE content
      /\ first[i] = IF a < n + i /\ n + i <= b THEN 1 - content ELSE content
  BY <1>3, <1>4, <1>5
<1>7. content # 1 - content
  BY DEF ReaderTypes
<1> QED
  BY <1>1, <1>6, <1>7
\* The bytes read so far are cut at most where the medium changed under them.
LEMMA ReaderStep ==
    ASSUME MaxChanges <= 2, DriverTypes, ReaderInv, [Next]_vars
    PROVE  ReaderInv'
<1> USE DEF Finish, FailWith, Continue, medium, reader
<1>t. ReaderTypes'
  BY ReaderTypesStep DEF ReaderInv
<1>1. CASE Begin
  BY <1>t, <1>1 DEF Begin, ReaderInv, NoTornDriver
<1>2. CASE ScanHandle
  BY <1>t, <1>2 DEF ScanHandle, ReaderInv, NoTornDriver
<1>3. CASE ScanDone
  BY <1>t, <1>3 DEF ScanDone, ReaderInv, NoTornDriver
<1>4. CASE OpenReader
  <2>1. CASE pc' = "idle"
    BY <2>1, <1>t DEF ReaderInv, NoTornDriver
  <2>2. CASE pc' # "idle"
    <3>1. pc = "open" /\ pc' = "read" /\ UNCHANGED <<first, second, content, changes>>
      BY <1>4, <2>2 DEF OpenReader
    <3>2. Len(first) = 0 /\ Len(second) = 0
      BY <3>1 DEF ReaderInv, ReaderTypes
    <3>3. Segments(0, 0)'
      BY <3>1, <3>2 DEF Segments, BlocksRead
    <3>4. \E a, b \in Nat : Segments(a, b)'
      BY <3>3
    <3> QED
      BY <1>t, <3>1, <3>4 DEF ReaderInv, NoTornDriver
  <2> QED
    BY <2>1, <2>2
<1>5. CASE Rewrite
  <2>1. CASE pc \in {"read", "compare"} /\ mediaId = geometry
    <3>1. PICK a \in Nat, b \in Nat : Segments(a, b)
      BY <2>1 DEF ReaderInv
    <3>2. PICK n \in Nat : n = BlocksRead /\ Segments(b, BlocksRead)'
      BY <1>5, <3>1, SegmentRewrite DEF Rewrite, ReaderInv
    <3>3. BlocksRead' = n
      BY <1>5, <3>2 DEF Rewrite, BlocksRead
    <3>4. Segments(b, n)'
      BY <3>2, <3>3 DEF Segments
    <3>5. \E x, y \in Nat : Segments(x, y)'
      BY <3>4
    <3> QED
      BY <1>t, <1>5, <3>5 DEF ReaderInv, NoTornDriver, Rewrite
  <2>2. CASE ~(pc \in {"read", "compare"} /\ mediaId = geometry)
    BY <1>t, <1>5, <2>2 DEF ReaderInv, NoTornDriver, Rewrite
  <2> QED
    BY <2>1, <2>2
<1>6. CASE Exchange
  <2>1. pc' = pc /\ (pc \in {"read", "compare"} => mediaId' # geometry')
    BY <1>6 DEF Exchange, ReaderInv, ReaderTypes
  <2> QED
    BY <1>t, <1>6, <2>1 DEF ReaderInv, NoTornDriver, Exchange
<1>7. CASE ReadBlock
  <2>1. CASE pc' = "idle"
    BY <2>1, <1>t DEF ReaderInv, NoTornDriver
  <2>2. CASE pc' # "idle"
    <3>1. /\ pc = "read" /\ mediaId = geometry /\ UNCHANGED <<content, changes>>
          /\ pc' \in {"read", "compare"}
          /\ IF Len(first) < DriverBlocks
             THEN first' = Append(first, content) /\ UNCHANGED second
             ELSE second' = Append(second, content) /\ UNCHANGED first
      BY <1>7, <2>2 DEF ReadBlock
    <3>2. PICK a \in Nat, b \in Nat : Segments(a, b)
      BY <3>1 DEF ReaderInv
    <3>3. Segments(a, b)'
      BY <1>t, <3>1, <3>2, SegmentRead DEF ReaderInv
    <3>4. \E x, y \in Nat : Segments(x, y)'
      BY <3>3
    <3> QED
      BY <1>t, <3>1, <3>4 DEF ReaderInv, NoTornDriver
  <2> QED
    BY <2>1, <2>2
<1>8. CASE Compare
  <2>1. CASE pc' = "idle"
    BY <2>1, <1>t DEF ReaderInv, NoTornDriver
  <2>2. CASE pc' # "idle"
    <3>1. /\ pc = "compare" /\ first = second /\ mediaId = geometry
          /\ pc' = "extracted" /\ UNCHANGED first
      BY <1>8, <2>2 DEF Compare
    <3>2. PICK a \in Nat, b \in Nat : Segments(a, b)
      BY <3>1 DEF ReaderInv
    <3>3. \A i \in 1..DriverBlocks : first[i] = first[1]
      BY <3>1, <3>2, EqualIsWhole DEF ReaderInv
    <3> QED
      BY <1>t, <3>1, <3>3 DEF ReaderInv, NoTornDriver
  <2> QED
    BY <2>1, <2>2
<1>9. CASE Extracted
  BY <1>t, <1>9 DEF Extracted, ReaderInv, NoTornDriver
<1>10. CASE LoadDriver
  BY <1>t, <1>10 DEF LoadDriver, ReaderInv, NoTornDriver
<1>11. CASE AcceptDriver
  BY <1>t, <1>11 DEF AcceptDriver, ReaderInv, NoTornDriver
<1>12. CASE StartDriver
  BY <1>t, <1>12 DEF StartDriver, ReaderInv, NoTornDriver
<1>13. CASE DriverReturns
  BY <1>t, <1>13 DEF DriverReturns, ReaderInv, NoTornDriver
<1>14. CASE Connect
  BY <1>t, <1>14 DEF Connect, ReaderInv, NoTornDriver
<1>15. CASE Volumes
  BY <1>t, <1>15 DEF Volumes, ReaderInv, NoTornDriver
<1>16. CASE OpenSelf
  BY <1>t, <1>16 DEF OpenSelf, ReaderInv, NoTornDriver
<1>17. CASE CheckSelf
  BY <1>t, <1>17 DEF CheckSelf, ReaderInv, NoTornDriver
<1>18. CASE LoadApp
  BY <1>t, <1>18 DEF LoadApp, ReaderInv, NoTornDriver
<1>19. CASE Finished
  BY <1>t, <1>19 DEF Finished, vars, ReaderInv, NoTornDriver
<1>20. CASE UNCHANGED vars
  <2>1. UNCHANGED <<pc, first, second, content, mediaId, geometry, changes>>
    BY <1>20 DEF vars
  <2> QED
    BY <1>t, <2>1 DEF ReaderInv, NoTornDriver, Segments, BlocksRead, Block
<1> QED
  BY <1>1, <1>2, <1>3, <1>4, <1>5, <1>6, <1>7, <1>8, <1>9, <1>10, <1>11, <1>12, <1>13, <1>14,
     <1>15,
     <1>16, <1>17, <1>18, <1>19, <1>20 DEF Next

\* Both invariants hold before the first step.
LEMMA DriverStarts == Init => DriverInv /\ ReaderInv
<1> SUFFICES ASSUME Init
             PROVE  DriverInv /\ ReaderInv
  OBVIOUS
<1>1. DriverInv
  BY ApfsDriverAssumption DEF Init, DriverInv, DriverTypes, Scanned, GuardsByStep, DriverByStep,
     ImagesByRun, Settled, Labels, Runs
<1>2. ReaderInv
  BY ApfsDriverAssumption DEF Init, ReaderInv, ReaderTypes, NoTornDriver
<1> QED
  BY <1>1, <1>2

-----------------------------------------------------------------------------
(* The driver: the theorems                                                *)

\* The inductive invariant: what the scan has seen, and what each run has
\* loaded, started and given back.
THEOREM DriverInvariant == Spec => []DriverInv
<1>1. DriverInv /\ [Next]_vars => DriverInv'
  BY DriverTypesStep, ScannedStep, GuardsStep, DriverByStepStep, ImagesStep DEF DriverInv
<1> QED
  BY <1>1, DriverStarts, PTL DEF Spec

\* For any set of handles and any order of the scan, the partition whose
\* driver is read, loaded and connected is the only listed one of APFS type
\* (candidate).
THEOREM PartitionIsUnique == Spec => []OnlyApfsPartition
<1>1. DriverInv => OnlyApfsPartition
  BY DEF DriverInv, Scanned, OnlyApfsPartition
<1> QED
  BY <1>1, DriverInvariant, PTL

\* For any number of runs and any refusals of UnloadImage, no guard is held
\* across a driver and nothing a run rejected stays unless the firmware
\* refused to unload it (start_driver, load).
THEOREM DriverIsClean == Spec => []CleanDriver
<1>1. DriverInv => CleanDriver
  <2> SUFFICES ASSUME DriverInv
               PROVE  CleanDriver
    OBVIOUS
  <2>1. NoGuardAcrossDriver
    BY DEF DriverInv, GuardsByStep, NoGuardAcrossDriver
  <2>2. NothingRejectedIsLeft
    <3> SUFFICES ASSUME pc = "idle", NEW r \in 1..run
                 PROVE  /\ Settled(r)
                        /\ app[r] = "loaded" /\ r = run =>
                              status = Success \/ <<"app", r>> \in refused
      BY DEF NothingRejectedIsLeft, Settled
    <3>1. r \in Runs /\ run # 0
      BY ApfsDriverAssumption DEF DriverInv, DriverTypes, Runs
    <3> QED
      BY <3>1 DEF DriverInv, ImagesByRun
  <2> QED
    BY <2>1, <2>2 DEF CleanDriver
<1> QED
  BY <1>1, DriverInvariant, PTL

\* With a driver of any number of blocks, two equal extractions taken with one
\* geometry hold one version of it, provided the medium changes at most twice
\* in between: a third change is needed to tear both in the same place
\* (read_driver).
THEOREM DriverIsWhole == ASSUME MaxChanges <= 2 PROVE Spec => []NoTornDriver
<1>1. DriverInv /\ ReaderInv /\ [Next]_vars => ReaderInv'
  BY ReaderStep DEF DriverInv
<1>2. ReaderInv => NoTornDriver
  BY DEF ReaderInv
<1> QED
  BY <1>1, <1>2, DriverStarts, DriverInvariant, PTL DEF Spec

-----------------------------------------------------------------------------
(* The volumes: the inductive invariant                                    *)

Listing == {"list", "path", "path_close"}
Observing == {"volume", "info", "root_info", "read", "close_root", "close"}

VolumesTypes ==
    /\ scanStep \in Listing \cup {"open"} \cup Observing \cup {"done"}
    /\ next \in Nat \ {0}
    /\ skipped \subseteq Indices
    /\ candidates \in Seq(Indices)
    /\ held \in [Resources -> Int]

\* What is open at each step.
HeldByStep ==
    /\ scanStep \in {"list", "path", "open", "done"} => \A r \in Resources : held[r] = 0
    /\ scanStep = "path_close" => held["path"] = 1 /\ held["protocol"] = 0 /\ held["root"] = 0
    /\ scanStep \in {"volume", "close"} =>
          held["path"] = 0 /\ held["protocol"] = 1 /\ held["root"] = 0
    /\ scanStep \in {"info", "root_info", "read", "close_root"} =>
          held["path"] = 0 /\ held["protocol"] = 1 /\ held["root"] = 1

\* The first n handles that have a path below the partition's, and the first
\* n candidates.
Visible(n) == {i \in 1..n : i \notin skipped /\ Below(i)}
Chosen(n) == {candidates[i] : i \in 1..n}

\* No two candidates have one path.
OwnPaths ==
    \A i, j \in 1..Len(candidates) : path[candidates[i]] = path[candidates[j]] => i = j

\* The candidates are the visible handles looked at so far.
Listed ==
    scanStep \in Listing =>
        /\ next <= HandleCount + 1
        /\ scanStep = "path_close" => next <= HandleCount
        /\ skipped \subseteq 1..(next - 1)
        /\ Chosen(Len(candidates)) = Visible(next - 1)
        /\ OwnPaths
        /\ complete = {} /\ result = NoStatus

\* The candidates are all visible handles, and those before the one in work
\* have been observed.
Observed ==
    scanStep \in {"open"} \cup Observing =>
        /\ next <= Len(candidates) + 1
        /\ scanStep # "open" => next <= Len(candidates)
        /\ candidates # <<>>
        /\ Chosen(Len(candidates)) = Visible(HandleCount)
        /\ OwnPaths
        /\ complete = Chosen(next - 1) /\ result = NoStatus

VolumesInv == VolumesTypes /\ HeldByStep /\ Listed /\ Observed /\ SelectedIsUnique

-----------------------------------------------------------------------------
(* The volumes: the steps                                                  *)

\* Every step keeps the types of the volume search.
LEMMA VolumesTypesStep ==
    ASSUME VolumesTypes, Listed, [VolumesNext]_volumesVars
    PROVE  VolumesTypes'
<1> USE DEF VolumesTypes, Listing, Observing, Resources, Return, Goto, Inner, Opened, Closed
<1>h. HandleCount \in Nat
  BY ApfsVolumesAssumption
<1>1. CASE List
  BY <1>1 DEF List
<1>2. CASE PathOpen
  <2>1. next \in Indices
    BY <1>h, <1>2 DEF PathOpen, Indices
  <2>2. skipped' \subseteq Indices
    BY <1>2, <2>1 DEF PathOpen
  <2>3. held' \in [Resources -> Int]
    BY <1>2 DEF PathOpen
  <2> QED
    BY <1>2, <2>2, <2>3 DEF PathOpen
<1>3. CASE PathClose
  <2>1. next \in Indices
    BY <1>h, <1>3 DEF PathClose, Listed, Indices
  <2>2. candidates' \in Seq(Indices)
    <3>1. candidates' = candidates \/ candidates' = Append(candidates, next)
      BY <1>3 DEF PathClose, Classify
    <3>2. Append(candidates, next) \in Seq(Indices)
      BY <2>1
    <3> QED
      BY <3>1, <3>2
  <2>3. skipped' \subseteq Indices
    BY <1>3, <2>1 DEF PathClose
  <2> QED
    BY <1>3, <2>2, <2>3 DEF PathClose, Classify
<1>4. CASE ListDone
  BY <1>4 DEF ListDone
<1>5. CASE Open
  BY <1>5 DEF Open
<1>6. CASE OpenVolume
  BY <1>6 DEF OpenVolume
<1>7. CASE ResponseFailed
  BY <1>7 DEF ResponseFailed
<1>8. CASE Info
  BY <1>8 DEF Info
<1>9. CASE RootInfo
  BY <1>9 DEF RootInfo
<1>10. CASE ReadEnd
  BY <1>10 DEF ReadEnd
<1>11. CASE ReadRecord
  BY <1>11 DEF ReadRecord
<1>12. CASE CloseRoot
  BY <1>12 DEF CloseRoot
<1>13. CASE Close
  BY <1>13 DEF Close
<1>14. CASE Pick
  BY <1>14 DEF Pick
<1>15. CASE Done
  BY <1>15 DEF Done, volumesVars, platform
<1>16. CASE UNCHANGED volumesVars
  BY <1>16 DEF volumesVars, platform
<1> QED
  BY <1>1, <1>2, <1>3, <1>4, <1>5, <1>6, <1>7, <1>8, <1>9, <1>10, <1>11, <1>12, <1>13, <1>14,
     <1>15, <1>16 DEF VolumesNext, Step

\* The protocols and buffers held follow from the step.
LEMMA HeldStep ==
    ASSUME VolumesTypes, HeldByStep, [VolumesNext]_volumesVars
    PROVE  HeldByStep'
<1> USE DEF VolumesTypes, HeldByStep, Resources, Return, Goto, Inner, Opened, Closed
<1>1. CASE List
  BY <1>1 DEF List
<1>2. CASE PathOpen
  BY <1>2 DEF PathOpen
<1>3. CASE PathClose
  BY <1>3 DEF PathClose, Classify
<1>4. CASE ListDone
  BY <1>4 DEF ListDone
<1>5. CASE Open
  BY <1>5 DEF Open
<1>6. CASE OpenVolume
  BY <1>6 DEF OpenVolume
<1>7. CASE ResponseFailed
  BY <1>7 DEF ResponseFailed
<1>8. CASE Info
  BY <1>8 DEF Info
<1>9. CASE RootInfo
  BY <1>9 DEF RootInfo
<1>10. CASE ReadEnd
  BY <1>10 DEF ReadEnd
<1>11. CASE ReadRecord
  BY <1>11 DEF ReadRecord
<1>12. CASE CloseRoot
  BY <1>12 DEF CloseRoot
<1>13. CASE Close
  BY <1>13 DEF Close
<1>14. CASE Pick
  BY <1>14 DEF Pick
<1>15. CASE Done
  BY <1>15 DEF Done, volumesVars, platform
<1>16. CASE UNCHANGED volumesVars
  BY <1>16 DEF volumesVars, platform
<1> QED
  BY <1>1, <1>2, <1>3, <1>4, <1>5, <1>6, <1>7, <1>8, <1>9, <1>10, <1>11, <1>12, <1>13, <1>14,
     <1>15, <1>16 DEF VolumesNext, Step

\* A handle that is skipped, or has no path below the partition's, adds
\* nothing to the visible ones.
LEMMA VisibleKept ==
    ASSUME NEW n \in Nat \ {0}, skipped \subseteq 1..(n - 1), UNCHANGED path,
           \/ skipped' = skipped \cup {n}
           \/ skipped' = skipped /\ ~Below(n)
    PROVE  /\ skipped' \subseteq 1..((n + 1) - 1)
           /\ Visible(n)' = Visible(n - 1)
<1>1. n \notin skipped /\ n \notin 1..(n - 1) /\ 1..n = (1..(n - 1)) \cup {n}
  OBVIOUS
<1>2. skipped' \subseteq 1..n /\ (n + 1) - 1 = n
  <2>1. skipped' \subseteq (1..(n - 1)) \cup {n}
    OBVIOUS
  <2> QED
    BY <1>1, <2>1
<1>3. \A i : Below(i)' = Below(i)
  BY DEF Below
<1>4. Visible(n)' = Visible(n - 1)
  BY <1>1, <1>3 DEF Visible
<1> QED
  BY <1>2, <1>4

\* Any other one is added.
LEMMA VisibleAdded ==
    ASSUME NEW n \in Nat \ {0}, skipped \subseteq 1..(n - 1), UNCHANGED <<path, skipped>>, Below(n)
    PROVE  /\ skipped' \subseteq 1..((n + 1) - 1)
           /\ Visible(n)' = Visible(n - 1) \cup {n}
<1>1. n \notin skipped /\ n \notin 1..(n - 1) /\ 1..n = (1..(n - 1)) \cup {n}
  OBVIOUS
<1>2. skipped' \subseteq 1..n /\ (n + 1) - 1 = n
  BY <1>1
<1>3. \A i : Below(i)' = Below(i)
  BY DEF Below
<1>4. Visible(n)' = Visible(n - 1) \cup {n}
  BY <1>1, <1>3 DEF Visible
<1> QED
  BY <1>2, <1>4

\* The step that adds a candidate.
LEMMA ChosenAdded ==
    ASSUME VolumesTypes, OwnPaths, NEW n \in Indices, candidates' = Append(candidates, n),
           UNCHANGED path, ~\E i \in 1..Len(candidates) : path[candidates[i]] = path[n]
    PROVE  /\ Chosen(Len(candidates))' = Chosen(Len(candidates)) \cup {n}
           /\ OwnPaths'
<1>1. PICK c \in Nat : c = Len(candidates)
  BY DEF VolumesTypes
<1>2. /\ Len(candidates') = c + 1 /\ candidates'[c + 1] = n
      /\ \A i \in 1..c : candidates'[i] = candidates[i]
  BY <1>1 DEF VolumesTypes
<1>3. 1..(c + 1) = (1..c) \cup {c + 1} /\ c + 1 \notin 1..c
  BY <1>1
<1>4. Chosen(Len(candidates))' = {candidates'[i] : i \in 1..(c + 1)}
  BY <1>2 DEF Chosen
<1>5. {candidates'[i] : i \in 1..(c + 1)} = {candidates[i] : i \in 1..c} \cup {n}
  BY <1>2, <1>3
<1>6. ASSUME NEW i \in 1..(c + 1), NEW j \in 1..(c + 1), path[candidates'[i]] = path[candidates'[j]]
      PROVE  i = j
  <2>1. CASE i \in 1..c /\ j \in 1..c
    BY <1>1, <1>2, <1>6, <2>1 DEF OwnPaths
  <2>2. CASE i \in 1..c /\ j = c + 1
    BY <1>1, <1>2, <1>6, <2>2
  <2>3. CASE i = c + 1 /\ j \in 1..c
    BY <1>1, <1>2, <1>6, <2>3
  <2> QED
    BY <1>3, <2>1, <2>2, <2>3
<1> QED
  BY <1>1, <1>2, <1>4, <1>5, <1>6 DEF Chosen, OwnPaths

\* The candidates are those of the handles looked at so far.
LEMMA ListedStep ==
    ASSUME VolumesTypes, Listed, [VolumesNext]_volumesVars
    PROVE  Listed'
<1> USE DEF Return, Goto, Inner, Opened, Closed
<1>k. ASSUME UNCHANGED <<path, skipped, candidates, next, complete, result>>, scanStep' # "path_close",
             scanStep' \in Listing => scanStep \in Listing
      PROVE  Listed'
  BY <1>k DEF Listed, Chosen, Visible, Below, OwnPaths
<1>o. ASSUME scanStep' \notin Listing
      PROVE  Listed'
  BY <1>o DEF Listed
<1>n. HandleCount \in Nat
  BY ApfsVolumesAssumption
<1>p. ASSUME scanStep \in {"path", "path_close"}, next <= HandleCount, UNCHANGED <<path, complete, result>>,
             candidates' = candidates, next' = next + 1, scanStep' = "path",
             skipped' = skipped \cup {next} \/ (skipped' = skipped /\ ~Below(next))
      PROVE  Listed'
  <2>1. PICK n \in Nat \ {0} : n = next
    BY DEF VolumesTypes
  <2>2. skipped \subseteq 1..(n - 1) /\ Chosen(Len(candidates)) = Visible(n - 1) /\ OwnPaths
    BY <1>p, <2>1 DEF Listed, Listing
  <2>3. skipped' \subseteq 1..((n + 1) - 1) /\ Visible(n)' = Visible(n - 1)
    BY <1>p, <2>1, <2>2, VisibleKept
  <2>4. Chosen(Len(candidates))' = Visible(n)' /\ OwnPaths'
    BY <1>p, <2>2, <2>3 DEF Chosen, OwnPaths
  <2>5. next' = n + 1 /\ next' - 1 = n /\ next' <= HandleCount + 1
    BY <1>n, <1>p, <2>1
  <2>6. complete' = {} /\ result' = NoStatus
    BY <1>p DEF Listed, Listing
  <2> QED
    BY <1>p, <2>3, <2>4, <2>5, <2>6 DEF Listed, Visible
<1>1. CASE List
  BY <1>k, <1>o, <1>1 DEF List, platform, Listing
<1>2. CASE PathOpen
  <2>1. CASE scanStep' = "done"
    BY <2>1, <1>o DEF Listing
  <2>2. CASE scanStep' = "path_close"
    BY <1>2, <2>2 DEF PathOpen, Listed, Listing, Chosen, Visible, Below, OwnPaths, platform
  <2>3. CASE scanStep' \notin {"done", "path_close"}
    BY <1>2, <1>p, <2>3 DEF PathOpen, platform
  <2> QED
    BY <2>1, <2>2, <2>3
<1>3. CASE PathClose
  <2>0. scanStep = "path_close" /\ next <= HandleCount /\ UNCHANGED <<path, complete>>
    BY <1>3 DEF PathClose, Listed, Listing, platform
  <2>1. CASE scanStep' = "done"
    BY <2>1, <1>o DEF Listing
  <2>2. CASE scanStep' # "done" /\ candidates' = candidates
    <3>1. /\ scanStep' = "path" /\ next' = next + 1 /\ UNCHANGED result
          /\ \/ skipped' = skipped \cup {next}
             \/ skipped' = skipped /\ (~Below(next) \/ candidates' = Append(candidates, next))
      BY <1>3, <2>2 DEF PathClose, Classify
    <3>2. candidates # Append(candidates, next)
      <4>1. Len(Append(candidates, next)) = Len(candidates) + 1 /\ Len(candidates) \in Nat
        BY DEF VolumesTypes
      <4> QED
        BY <4>1
    <3> QED
      BY <1>p, <2>0, <2>2, <3>1, <3>2
  <2>3. CASE scanStep' # "done" /\ candidates' # candidates
    <3>1. /\ scanStep' = "path" /\ next' = next + 1 /\ UNCHANGED <<result, skipped>>
          /\ Below(next) /\ candidates' = Append(candidates, next)
          /\ ~\E i \in 1..Len(candidates) : path[candidates[i]] = path[next]
      BY <1>3, <2>3 DEF PathClose, Classify
    <3>2. PICK n \in Nat \ {0} : n = next
      BY DEF VolumesTypes
    <3>3. /\ skipped \subseteq 1..(n - 1) /\ Chosen(Len(candidates)) = Visible(n - 1) /\ OwnPaths
          /\ complete = {} /\ result = NoStatus
      BY <2>0, <3>2 DEF Listed, Listing
    <3>4. skipped' \subseteq 1..((n + 1) - 1) /\ Visible(n)' = Visible(n - 1) \cup {n}
      BY <2>0, <3>1, <3>2, <3>3, VisibleAdded
    <3>5. n \in Indices
      BY <1>n, <2>0, <3>2 DEF Indices
    <3>6. Chosen(Len(candidates))' = Chosen(Len(candidates)) \cup {n} /\ OwnPaths'
      BY <2>0, <3>1, <3>2, <3>3, <3>5, ChosenAdded
    <3>7. Chosen(Len(candidates))' = Visible(n)'
      BY <3>3, <3>4, <3>6
    <3>8. next' = n + 1 /\ next' - 1 = n /\ next' <= HandleCount + 1
      BY <1>n, <2>0, <3>1, <3>2
    <3> QED
      BY <2>0, <3>1, <3>3, <3>4, <3>6, <3>7, <3>8 DEF Listed, Visible
  <2> QED
    BY <2>1, <2>2, <2>3
<1>4. CASE ListDone
  BY <1>o, <1>4 DEF ListDone, Listing
<1>5. CASE Open
  BY <1>o, <1>5 DEF Open, Listing
<1>6. CASE OpenVolume
  BY <1>o, <1>6 DEF OpenVolume, Listing
<1>7. CASE ResponseFailed
  BY <1>o, <1>7 DEF ResponseFailed, Listing
<1>8. CASE Info
  BY <1>o, <1>8 DEF Info, Listing
<1>9. CASE RootInfo
  BY <1>o, <1>9 DEF RootInfo, Listing
<1>10. CASE ReadEnd
  BY <1>o, <1>10 DEF ReadEnd, Listing
<1>11. CASE ReadRecord
  BY <1>o, <1>11 DEF ReadRecord, Listing
<1>12. CASE CloseRoot
  BY <1>o, <1>12 DEF CloseRoot, Listing
<1>13. CASE Close
  BY <1>o, <1>13 DEF Close, Listing
<1>14. CASE Pick
  BY <1>o, <1>14 DEF Pick, Listing
<1>15. CASE Done
  BY <1>o, <1>15 DEF Done, volumesVars, platform, Listing
<1>16. CASE UNCHANGED volumesVars
  <2>1. UNCHANGED <<scanStep, path, skipped, candidates, next, complete, result>>
    BY <1>16 DEF volumesVars, platform
  <2> QED
    BY <2>1 DEF Listed, Listing, Chosen, Visible, Below, OwnPaths
<1> QED
  BY <1>1, <1>2, <1>3, <1>4, <1>5, <1>6, <1>7, <1>8, <1>9, <1>10, <1>11, <1>12, <1>13, <1>14,
     <1>15, <1>16 DEF VolumesNext, Step

\* The candidates are complete, and those before the one in work observed.
LEMMA ObservedStep ==
    ASSUME VolumesTypes, Listed, Observed, [VolumesNext]_volumesVars
    PROVE  Observed'
<1> USE DEF Return, Goto, Inner, Opened, Closed
<1>o. ASSUME scanStep' \notin {"open"} \cup Observing
      PROVE  Observed'
  BY <1>o DEF Observed
<1>k. ASSUME scanStep \in {"open"} \cup Observing, scanStep = "open" => next <= Len(candidates),
             scanStep' # "open", UNCHANGED <<path, skipped, candidates, next, complete, result>>
      PROVE  Observed'
  BY <1>k DEF Observed, Chosen, Visible, Below, OwnPaths
<1>1. CASE List
  BY <1>o, <1>1 DEF List, Listing, Observing
<1>2. CASE PathOpen
  BY <1>o, <1>2 DEF PathOpen, Observing
<1>3. CASE PathClose
  BY <1>o, <1>3 DEF PathClose, Classify, Observing
<1>4. CASE ListDone
  <2>1. CASE scanStep' = "done"
    BY <2>1, <1>o DEF Observing
  <2>2. CASE scanStep' # "done"
    <3>1. /\ scanStep = "path" /\ scanStep' = "open" /\ candidates # <<>> /\ next > HandleCount
          /\ next' = 1 /\ UNCHANGED <<path, skipped, candidates, complete, result>>
      BY <1>4, <2>2 DEF ListDone, platform
    <3>2. HandleCount \in Nat
      BY ApfsVolumesAssumption
    <3>3. next - 1 = HandleCount
      BY <3>1, <3>2 DEF Listed, Listing, VolumesTypes
    <3>4. /\ Chosen(Len(candidates)) = Visible(HandleCount) /\ OwnPaths
          /\ complete = {} /\ result = NoStatus
      BY <3>1, <3>3 DEF Listed, Listing
    <3>5. Chosen(0)' = {} /\ next' - 1 = 0
      BY <3>1 DEF Chosen
    <3>6. next' <= Len(candidates') + 1
      BY <3>1 DEF VolumesTypes
    <3>7. Chosen(Len(candidates))' = Visible(HandleCount)' /\ OwnPaths'
      BY <3>1, <3>4 DEF Chosen, Visible, Below, OwnPaths
    <3>8. complete' = Chosen(next - 1)'
      BY <3>1, <3>4, <3>5 DEF Chosen
    <3> QED
      BY <3>1, <3>4, <3>6, <3>7, <3>8 DEF Observed
  <2> QED
    BY <2>1, <2>2
<1>5. CASE Open
  BY <1>k, <1>o, <1>5 DEF Open, platform, Observing
<1>6. CASE OpenVolume
  BY <1>k, <1>o, <1>6 DEF OpenVolume, platform, Observing
<1>7. CASE ResponseFailed
  BY <1>k, <1>o, <1>7 DEF ResponseFailed, platform, Observing
<1>8. CASE Info
  BY <1>k, <1>o, <1>8 DEF Info, platform, Observing
<1>9. CASE RootInfo
  BY <1>k, <1>o, <1>9 DEF RootInfo, platform, Observing
<1>10. CASE ReadEnd
  BY <1>k, <1>o, <1>10 DEF ReadEnd, platform, Observing
<1>11. CASE ReadRecord
  BY <1>k, <1>o, <1>11 DEF ReadRecord, platform, Observing
<1>12. CASE CloseRoot
  BY <1>k, <1>o, <1>12 DEF CloseRoot, platform, Observing
<1>13. CASE Close
  <2>1. CASE scanStep' = "done"
    BY <2>1, <1>o DEF Observing
  <2>2. CASE scanStep' # "done"
    <3>1. /\ scanStep = "close" /\ scanStep' = "open"
          /\ complete' = complete \cup {candidates[next]} /\ next' = next + 1
          /\ UNCHANGED <<path, skipped, candidates, result>>
      BY <1>13, <2>2 DEF Close, Current, platform
    <3>2. PICK n \in Nat \ {0} : n = next
      BY DEF VolumesTypes
    <3>3. /\ n <= Len(candidates) /\ candidates # <<>> /\ OwnPaths
          /\ Chosen(Len(candidates)) = Visible(HandleCount)
          /\ complete = Chosen(n - 1) /\ result = NoStatus
      BY <3>1, <3>2 DEF Observed, Observing
    <3>4. 1..n = (1..(n - 1)) \cup {n} /\ (n + 1) - 1 = n
      OBVIOUS
    <3>5. complete' = Chosen(n)'
      BY <3>1, <3>2, <3>3, <3>4 DEF Chosen
    <3>6. next' = n + 1 /\ next' - 1 = n /\ next' <= Len(candidates') + 1
      BY <3>1, <3>2, <3>3 DEF VolumesTypes
    <3>7. Chosen(Len(candidates))' = Visible(HandleCount)' /\ OwnPaths'
      BY <3>1, <3>3 DEF Chosen, Visible, Below, OwnPaths
    <3>8. complete' = Chosen(next - 1)'
      BY <3>5, <3>6 DEF Chosen
    <3> QED
      BY <3>1, <3>3, <3>6, <3>7, <3>8 DEF Observed
  <2> QED
    BY <2>1, <2>2
<1>14. CASE Pick
  BY <1>o, <1>14 DEF Pick, Observing
<1>15. CASE Done
  BY <1>o, <1>15 DEF Done, volumesVars, platform, Observing
<1>16. CASE UNCHANGED volumesVars
  <2>1. UNCHANGED <<scanStep, path, skipped, candidates, next, complete, result>>
    BY <1>16 DEF volumesVars, platform
  <2> QED
    BY <2>1 DEF Observed, Observing, Chosen, Visible, Below, OwnPaths
<1> QED
  BY <1>1, <1>2, <1>3, <1>4, <1>5, <1>6, <1>7, <1>8, <1>9, <1>10, <1>11, <1>12, <1>13, <1>14,
     <1>15, <1>16 DEF VolumesNext, Step


\* A volume is selected only where it is the only match.
LEMMA UniqueStep ==
    ASSUME VolumesTypes, Listed, Observed, SelectedIsUnique, [VolumesNext]_volumesVars
    PROVE  SelectedIsUnique'
<1> USE DEF Return, Goto, Inner, Opened, Closed
<1>e. ASSUME result' # Success
      PROVE  SelectedIsUnique'
  BY <1>e DEF SelectedIsUnique
<1>r. ASSUME scanStep # "done"
      PROVE  result # Success
  BY <1>r DEF VolumesTypes, Listed, Observed, NoStatus, Success
<1>f. Success \notin FirmwareErrors
  BY FirmwareErrorsAssumption
<1>u. ASSUME UNCHANGED <<result, caller, path, labelled, skipped, complete>>
      PROVE  SelectedIsUnique'
  BY <1>u DEF SelectedIsUnique, Below, Enumerate
<1> USE <1>f DEF Success
<1>1. CASE List
  BY <1>r, <1>e, <1>1 DEF List
<1>2. CASE PathOpen
  BY <1>r, <1>e, <1>2 DEF PathOpen
<1>3. CASE PathClose
  BY <1>r, <1>e, <1>3 DEF PathClose, Classify
<1>4. CASE ListDone
  BY <1>r, <1>e, <1>4 DEF ListDone
<1>5. CASE Open
  BY <1>r, <1>e, <1>5 DEF Open
<1>6. CASE OpenVolume
  BY <1>r, <1>e, <1>6 DEF OpenVolume
<1>7. CASE ResponseFailed
  BY <1>r, <1>e, <1>7 DEF ResponseFailed
<1>8. CASE Info
  BY <1>r, <1>e, <1>8 DEF Info
<1>9. CASE RootInfo
  BY <1>r, <1>e, <1>9 DEF RootInfo
<1>10. CASE ReadEnd
  BY <1>r, <1>e, <1>10 DEF ReadEnd
<1>11. CASE ReadRecord
  BY <1>r, <1>e, <1>11 DEF ReadRecord
<1>12. CASE CloseRoot
  BY <1>r, <1>e, <1>12 DEF CloseRoot
<1>13. CASE Close
  BY <1>r, <1>e, <1>13 DEF Close
<1>14. CASE Pick
  <2>1. CASE result' # Success
    BY <1>e, <2>1
  <2>2. CASE result' = Success
    <3> DEFINE visible == {i \in Indices \ skipped : Below(i)}
    <3>1. /\ scanStep = "open" /\ next > Len(candidates)
          /\ UNCHANGED <<path, skipped, complete, caller, labelled>>
          /\ Enumerate \/ Cardinality(complete \cap labelled) = 1
      BY <1>14, <2>2 DEF Pick, platform, Success
    <3>2. /\ next <= Len(candidates) + 1 /\ candidates # <<>> /\ OwnPaths
          /\ Chosen(Len(candidates)) = Visible(HandleCount) /\ complete = Chosen(next - 1)
      BY <3>1 DEF Observed
    <3>3. next - 1 = Len(candidates)
      BY <3>1, <3>2 DEF VolumesTypes
    <3>4. visible = Visible(HandleCount) /\ complete = visible
      BY <3>2, <3>3 DEF Visible, Indices
    <3>5. visible # {}
      <4>1. Len(candidates) \in Nat \ {0}
        BY <3>2, EmptySeq DEF VolumesTypes
      <4>2. candidates[1] \in Chosen(Len(candidates))
        BY <4>1 DEF Chosen
      <4> QED
        BY <3>2, <3>4, <4>2
    <3>6. \A i, j \in visible : path[i] = path[j] => i = j
      BY <3>2, <3>4 DEF Chosen, OwnPaths
    <3>7. UNCHANGED visible /\ UNCHANGED Enumerate
      BY <3>1 DEF Below, Enumerate
    <3>8. ~Enumerate => Cardinality(visible \cap labelled) = 1
      BY <3>1, <3>4
    <3> QED
      BY <3>1, <3>4, <3>5, <3>6, <3>7, <3>8 DEF SelectedIsUnique
  <2> QED
    BY <2>1, <2>2
<1>15. CASE Done
  BY <1>u, <1>15 DEF Done, volumesVars, platform, volume, budget
<1>16. CASE UNCHANGED volumesVars
  BY <1>u, <1>16 DEF volumesVars, platform
<1> QED
  BY <1>1, <1>2, <1>3, <1>4, <1>5, <1>6, <1>7, <1>8, <1>9, <1>10, <1>11, <1>12, <1>13, <1>14,
     <1>15, <1>16 DEF VolumesNext, Step

-----------------------------------------------------------------------------
(* The volumes: the theorems                                               *)

\* The inductive invariant: what is open, and which handles are candidates
\* and observed, at every step of the scan.
THEOREM VolumesInvariant == VolumesSpec => []VolumesInv
<1>1. VolumesInit => VolumesInv
  <2> SUFFICES ASSUME VolumesInit
               PROVE  VolumesInv
    OBVIOUS
  <2>1. Len(candidates) = 0 /\ 1..0 = {} /\ HandleCount \in Nat
    BY ApfsVolumesAssumption DEF VolumesInit
  <2>2. VolumesTypes /\ HeldByStep /\ Observed
    BY DEF VolumesInit, VolumesTypes, HeldByStep, Observed, Listing, Observing, Resources
  <2>3. Listed
    BY <2>1 DEF VolumesInit, Listed, Chosen, Visible, OwnPaths
  <2>4. SelectedIsUnique
    BY DEF VolumesInit, SelectedIsUnique, NoStatus, Success
  <2> QED
    BY <2>2, <2>3, <2>4 DEF VolumesInv
<1>2. VolumesInv /\ [VolumesNext]_volumesVars => VolumesInv'
  BY VolumesTypesStep, HeldStep, ListedStep, ObservedStep, UniqueStep DEF VolumesInv
<1> QED
  BY <1>1, <1>2, PTL DEF VolumesSpec

\* For any number of handles and any failing call, every protocol and root
\* directory that is opened is closed exactly once, inner before outer, before
\* the result is returned (Protocol, Root, observe_volume).
THEOREM OpensAreClosed == VolumesSpec => []ClosedExactlyOnce
<1>1. VolumesInv => ClosedExactlyOnce
  BY DEF VolumesInv, VolumesTypes, Listing, Observing, HeldByStep, ClosedExactlyOnce, Resources
<1> QED
  BY <1>1, VolumesInvariant, PTL

\* For any handles, paths and labels, a volume is selected only if it is the
\* one labelled volume among all visible handles, every one of which was
\* observed and has a path of its own (candidates, select_volume).
THEOREM SelectionIsUnique == VolumesSpec => []SelectedIsUnique
<1>1. VolumesInv => SelectedIsUnique
  BY DEF VolumesInv
<1> QED
  BY <1>1, VolumesInvariant, PTL
===============================================================================
