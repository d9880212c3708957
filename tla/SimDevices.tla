------------------------------ MODULE SimDevices ------------------------------
(***************************************************************************)
(* What the frontend of the cycle simulator serves requests from: the      *)
(* memory image of a controller (McImage, sim/src/system.cpp) and the      *)
(* peripheral device (sim/src/devices.h), as operators.  Addresses and     *)
(* sizes count lanes; a line is a function on 1 .. LineWidth.              *)
(***************************************************************************)
EXTENDS Integers

CONSTANTS
    LineWidth,  \* MEM_BUS_WIDTH_B
    Bootrom,    \* the lanes of the boot image, from 0
    RandomWord(_, _),   \* the n-th word that the generator draws after a seed
    ConfigOf    \* values of the configuration fields, by offset

LineStart(addr) == addr - (addr % LineWidth)
Offset(addr) == addr % LineWidth
LineOf(value(_)) == [lane \in 1 .. LineWidth |-> value(lane - 1)]

----------------------------------------------------------------------------
(* McImage: a function from the lanes that were written to their values;   *)
(* the others read as zero, in the dense part of the image and beyond it.  *)

At(image, addr) == IF addr \in DOMAIN image THEN image[addr] ELSE 0

\* The whole line is read, before the write.
Prepare(image, req) ==
    LET lane(i) == At(image, LineStart(req.addr) + i)
    IN  [resp |-> [id |-> req.id, data |-> LineOf(lane)],
         mask |-> IF req.write THEN req.addr .. req.addr + req.size - 1 ELSE {}]

\* mutant: a store replaces the whole line
CommitLine(image, req, access) ==
    LET line == LineStart(req.addr) .. LineStart(req.addr) + LineWidth - 1
    IN  IF ~req.write THEN image
        ELSE [a \in DOMAIN image \cup line |->
                 IF a \in line THEN req.wdata[Offset(a) + 1] ELSE image[a]]
CommitWrite(image, req, access) ==
    [a \in DOMAIN image \cup access.mask |->
        IF a \in access.mask THEN req.wdata[Offset(a) + 1] ELSE image[a]]

----------------------------------------------------------------------------
(* PeripheralDevice: one lane is a word.                                   *)

Register == [result |-> 0, timer |-> 1, ascii |-> 2, output |-> 3, rng |-> 4]
BootromBase == 8
ConfigBase == 16        \* the end of the boot ROM
ConfigSize == 8

NewDevice(seed) ==
    [result |-> {}, timerEnabled |-> FALSE, timerCount |-> 0, seed |-> seed, drawn |-> 0]

\* mutant: the timer counts while it is off, too
TickAlways(d) == [d EXCEPT !.timerCount = @ + 1]
Tick(d) == [d EXCEPT !.timerCount = IF d.timerEnabled THEN @ + 1 ELSE @]

\* The two outputs only print.
DeviceWrite(d, addr, data) ==
    CASE addr = Register.result -> [d EXCEPT !.result = {data}]
      [] addr = Register.timer -> [d EXCEPT !.timerEnabled = data # 0]
      [] addr = Register.rng -> [d EXCEPT !.seed = data, !.drawn = 0]
      [] OTHER -> d

IsBootrom(addr) == addr \in BootromBase .. ConfigBase - 1
ReadBootrom(addr) ==
    LET lane(i) == At(Bootrom, LineStart(addr) - BootromBase + i) IN LineOf(lane)

DeviceRead(d, addr) ==
    CASE addr = Register.rng -> RandomWord(d.seed, d.drawn + 1)
      [] addr \in ConfigBase .. ConfigBase + ConfigSize - 1 -> At(ConfigOf, addr - ConfigBase)
      [] OTHER -> 0
Drawn(d, addr) == [d EXCEPT !.drawn = IF addr = Register.rng THEN @ + 1 ELSE @]

\* servePeriphReq: a word is written or read, but a line of the boot ROM.
ServePeriph(d, req) ==
    LET word(i) == IF i = Offset(req.addr) THEN DeviceRead(d, req.addr) ELSE 0
        zero(i) == 0
    IN  IF req.write
        THEN [device |-> DeviceWrite(d, req.addr, req.wdata[Offset(req.addr) + 1]),
              resp |-> [id |-> req.id, data |-> LineOf(zero)]]
        ELSE IF IsBootrom(req.addr)
        THEN [device |-> d, resp |-> [id |-> req.id, data |-> ReadBootrom(req.addr)]]
        ELSE [device |-> Drawn(d, req.addr), resp |-> [id |-> req.id, data |-> LineOf(word)]]

=============================================================================
