------------------------------- MODULE MCData ------------------------------
(***************************************************************************)
(* The components that keep or compute data, in one state space, each on   *)
(* its own: buffers, strings, packets on a stream, text functions, times   *)
(* and log files.  'part' says which one a behaviour is about; the others  *)
(* are idle.                                                               *)
(***************************************************************************)
EXTENDS Naturals

CONSTANTS
  Byte, BufferRoom, StringRoom,   \* of BinaryBuffer and String
  Char, MinMem, TextRoom,         \* of StringObject
  Header, Longest, Messages,      \* of ComDataCheck
  Size, Word,                     \* of TextFunctions
  NANOS_PER_SECOND, Seconds,      \* of TimeSpec
  Thread, Path, MaxSize, Lengths, MaxLog, MaxTries,  \* of ErrorLogger
  Careful                         \* of the buffers, strings and the logger

VARIABLES
  part,
  b, bytes,                             \* a BinaryBuffer
  s, chars,                             \* a String
  str, text,                            \* a StringObject
  out, sent, wire, in, got, broken, crashed,  \* two ComDataCheck objects
  mem, call,                            \* a call of a text function
  now, timer, status,                   \* a Timer
  file_path, file, timeout, mutex, disk, left, pc, log_count, written,
  logCrashed                            \* an ErrorLogger

bufferVars == <<b, bytes>>
stringVars == <<s, chars>>
objectVars == <<str, text>>
streamVars == <<out, sent, wire, in, got, broken, crashed>>
callVars == <<mem, call>>
timeVars == <<now, timer, status>>
logVars == <<file_path, file, timeout, mutex, disk, left, pc, log_count, written, logCrashed>>
allVars == <<part, bufferVars, stringVars, objectVars, streamVars, callVars, timeVars, logVars>>

Buffer == INSTANCE BinaryBuffer WITH Room <- BufferRoom
Str == INSTANCE String WITH Room <- StringRoom, b <- s, bytes <- chars
Object == INSTANCE StringObject WITH Room <- TextRoom
Stream == INSTANCE ComDataCheck
Text == INSTANCE TextFunctions
Time == INSTANCE TimeSpec
Log == INSTANCE ErrorLogger WITH crashed <- logCrashed

ASSUME BufferAssumption == BufferRoom \in Nat \ {0}
ASSUME LogAssumption == Log!LengthsOK
ASSUME StreamAssumption == Header \in Nat \ {0}
ASSUME TextAssumption == Size \in Nat \ {0} /\ Word \in Nat \ {0}
ASSUME TimeAssumption == NANOS_PER_SECOND \in Nat \ {0} /\ Seconds \in Nat

Init ==
  /\ part \in {"buffer", "string", "object", "stream", "call", "time", "log"}
  /\ Buffer!Init /\ Str!StringInit /\ Object!Init /\ Stream!Init /\ Log!Init
  /\ part # "log" => file_path = CHOOSE p \in Path : TRUE
  /\ IF part = "call" THEN Text!Init ELSE mem = <<>> /\ call = Text!Nothing
  /\ IF part = "time" THEN Time!Init
     ELSE now = Time!timespec(0, 0) /\ timer = Time!newTimer(1, 0) /\ status = Time!Unread

(* A step of one component.                                                *)
On(p, Step) ==
  /\ part = p
  /\ Step
  /\ UNCHANGED part
  /\ p # "buffer" => UNCHANGED bufferVars
  /\ p # "string" => UNCHANGED stringVars
  /\ p # "object" => UNCHANGED objectVars
  /\ p # "stream" => UNCHANGED streamVars
  /\ p # "call" => UNCHANGED callVars
  /\ p # "time" => UNCHANGED timeVars
  /\ p # "log" => UNCHANGED logVars

Next ==
  \/ On("buffer", Buffer!Next)
  \/ On("string", Str!StringNext)
  \/ On("object", Object!Next)
  \/ On("stream", Stream!Next)
  \/ On("call", Text!Next)
  \/ On("time", Time!Next)
  \/ On("log", Log!Next)

(* Only the logger waits: the fairness of its threads.                     *)
Fairness == \A t \in Thread : SF_allVars(On("log", Log!Running(t)))

Spec == Init /\ [][Next]_allVars /\ Fairness

-----------------------------------------------------------------------------
(* A buffer holds the bytes its callers were promised, inside the memory   *)
(* it has (BinaryBuffer.tla).                                              *)
HoldsItsBytes == Buffer!HoldsItsBytes

(* A string holds the text its callers were promised, with the terminator  *)
(* it needs, inside the memory it has: TextIsTerminated of String and      *)
(* TextIsKept of StringObject.                                             *)
TextsAreKept == Str!TextIsTerminated /\ Object!TextIsKept

(* Messages come out of the stream as they went in (ComDataCheck.tla).     *)
FramesSurvive == Stream!FramesSurvive

(* Copies, searches, comparisons and trims do to the byte what the         *)
(* functions are for, but for the calls that contradict their comments     *)
(* (TextFunctions.tla).                                                    *)
TextIsHandled == Text!TextIsHandled

(* A timer rings exactly at its end, and its next end is later by what     *)
(* passes between the two readings of the clock (TimeSpec.tla).            *)
RingsExactly == Time!RingsExactly

(* The log file stays whole and bounded while threads log, time out and    *)
(* change its path, and their calls return (ErrorLogger.tla).              *)
LogIsWhole == [][Log!LogIsWhole']_logVars /\ Log!CallsReturn
=============================================================================
