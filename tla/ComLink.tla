------------------------------ MODULE ComLink ------------------------------
(***************************************************************************)
(* The host's link to the concentrator: the SPI and USB drivers            *)
(* (loragw_spi.c, loragw_usb.c, loragw_mcu.c), the dispatch between them   *)
(* (loragw_com.c, sx1250_com.c, sx125x_com.c, sx1261_com.c) and the        *)
(* registers and memories reached through it (loragw_reg.c), up to the     *)
(* loading of the firmware of the AGC and arbiter MCUs.                    *)
(*                                                                         *)
(* Every function is an operator from a state s of the link to the set of  *)
(* its outcomes [s, ok, val], one for each way the device may behave.  The *)
(* fields of s are the static variables of these files, the bytes waiting  *)
(* in the tty, and the memory of the device.  A byte is a pair of fields,  *)
(* so that writing one of them is a read-modify-write.                     *)
(*                                                                         *)
(* The device is external.  It may fail a request, disappear (every system *)
(* call then fails until the port is opened again), or answer a request of *)
(* a dead process after the new one emptied the tty.                       *)
(***************************************************************************)
EXTENDS Outcomes

CONSTANTS
  Values,       \* the values of a field of a register; 0 is the reset value
  RadioValues,  \* the ones written to the radios
  Images,       \* the firmware images
  Chunks,       \* the number of bursts an image takes
  MaxReqs,      \* the number of requests of the bulk buffer (255)
  MaxFaults,    \* bound on the failures of the device
  MaxCrashes    \* bound on the deaths of the process

ASSUME LinkAssumption == 0 \in Values /\ 0 \notin Images /\ {Chunks, MaxReqs} \subseteq Nat \ {0}

VARIABLES
  link,     \* the state of the link, see FreshLink
  open,     \* lgw_connect succeeded and lgw_disconnect was not called
  ret,      \* the last operation and its result
  want,     \* the memory as the operations should have left it while none failed
  failed,   \* an operation of this process reported an error
  crashes   \* deaths so far

linkVars == <<link, open, ret, want, failed, crashes>>

\* The addresses: a register of the SX1302, of a radio and of the SX1261, and
\* the bursts of the memory of an MCU.
Reg == 0
RadioReg == -1
SxReg == -2
Addresses == {Reg, RadioReg, SxReg} \cup (1 .. Chunks)
Reset == [a \in Addresses |-> <<0, 0>>]

\* The static variables of a new process, over the tty and the device as they stand.
NewProcess(tty, late, faults, mem) ==
  [type |-> "unknown", target |-> "null", mode |-> "single", nb |-> 0, bulk |-> <<>>,
   target61 |-> "null", mode61 |-> "single", nb61 |-> 0,
   tty |-> tty, late |-> late, alive |-> TRUE, faults |-> faults, mem |-> mem]
FreshLink == NewProcess(<<>>, <<>>, 0, Reset)

------------------------------------------------------------------------------
(* The device. *)

\* One access to the memory of the device: a write of the whole byte, or of
\* one of its fields.
Accessed(mem, op) ==
  CASE op.kind = "w"   -> [mem EXCEPT ![op.addr] = op.val]
    [] op.kind = "rmw" -> [mem EXCEPT ![op.addr][op.field] = op.val]
    [] OTHER           -> mem

\* The memory after a sequence of accesses.
AllAccessed(mem, ops) ==
  LET after[n \in 0 .. Len(ops)] == IF n = 0 THEN mem ELSE Accessed(after[n - 1], ops[n])
  IN  after[Len(ops)]

\* The MCU executes the accesses of a request and answers, or reports that the
\* first of them failed.
Served(s, req) ==
  LET done == AllAccessed(s.mem, req.ops)
      val  == IF req.ops = <<>> THEN <<0, 0>> ELSE s.mem[Head(req.ops).addr]
      answered(t, good) == [t EXCEPT !.tty = Append(@, [kind |-> req.kind, good |-> good, val |-> val])]
  IN  {answered([s EXCEPT !.mem = IF req.kind = "gpio" THEN Reset ELSE done], TRUE)}
      \cup (IF s.faults < MaxFaults /\ req.kind \in {"spi", "gpio"}
            THEN {answered([s EXCEPT !.faults = @ + 1], FALSE)} ELSE {})

\* A system call on the port fails: the device is gone.
Gone(s) ==
  IF ~s.alive THEN {s}
  ELSE IF s.faults < MaxFaults THEN {[s EXCEPT !.alive = FALSE, !.faults = @ + 1]} ELSE {}

------------------------------------------------------------------------------
(* loragw_mcu.c *)

\* The header and the payload of a request are written to the tty.
write_req(s, req) ==
  (UNION {Fails(t) : t \in Gone(s)})
  \cup (IF s.alive THEN UNION {Succeeds(t) : t \in Served(s, req)} ELSE {})

\* Answers in the order of their sizes: an answer longer than the buffer of the
\* caller is refused, its payload is left in the tty.
AnswerSize == [rest |-> 0, gpio |-> 1, status |-> 2, ping |-> 3, spi |-> 4]

\* The header of the next answer is read, then its payload.
read_ack(s, kind) ==
  LET a == Head(s.tty)
      rest == [s EXCEPT !.tty = Tail(@)]
  IN  (UNION {Fails(t) : t \in Gone(s)})
      \cup (IF ~s.alive THEN {}
            ELSE IF a.kind = "rest" THEN Fails(rest) \cup Fails(s)
            ELSE IF AnswerSize[a.kind] > AnswerSize[kind]
                 THEN Fails([s EXCEPT !.tty = <<[a EXCEPT !.kind = "rest"]>> \o Tail(@)])
            ELSE Succeeds(rest))

\* The type of the answer is compared with the request's; its number is not.
decode_ack(o, a, kind) == [o EXCEPT !.ok = a.kind = kind, !.val = a.val]

decode_ack_ping(o, a) == decode_ack(o, a, "ping")
decode_ack_get_status(o, a) == decode_ack(o, a, "status")

\* The status the MCU gives is read by the caller.
decode_ack_gpio_access(o, a) == [decode_ack(o, a, "gpio") EXCEPT !.ok = @ /\ a.good]

\* The first request that failed ends the decoding.
decode_ack_spi_bulk(o, a) == [decode_ack(o, a, "spi") EXCEPT !.ok = @ /\ a.good]

\* A request, its answer, and the decoding of the answer.
Exchange(s, req, decode(_, _)) ==
  AndThen(write_req(s, req), LAMBDA t :
    Then(read_ack(t, req.kind), LAMBDA o : {decode(o, Head(t.tty))}))

Request(kind) == [kind |-> kind, ops |-> <<>>]

mcu_ping(s) == Exchange(s, Request("ping"), decode_ack_ping)
mcu_get_status(s) == Exchange(s, Request("status"), decode_ack_get_status)
mcu_gpio_write(s) == Exchange(s, Request("gpio"), decode_ack_gpio_access)
mcu_spi_write(s, accesses) == Exchange(s, [kind |-> "spi", ops |-> accesses], decode_ack_spi_bulk)

\* A request is added to the bulk buffer unless it is full.
spi_req_bulk_insert(s, op) ==
  IF Len(s.bulk) = MaxReqs THEN Fails(s) ELSE Succeeds([s EXCEPT !.bulk = Append(@, op)])

mcu_spi_store(s, op) == spi_req_bulk_insert(s, op)

\* Mutant: the requests stay in the buffer after they were sent.
mcu_spi_flush_keeping(s) == mcu_spi_write(s, s.bulk)

\* The requests of the buffer are sent at once; a failure leaves them in it.
mcu_spi_flush(s) ==
  Then(mcu_spi_write(s, s.bulk), LAMBDA o : Succeeds([o.s EXCEPT !.bulk = <<>>]))

------------------------------------------------------------------------------
(* loragw_usb.c *)

NbMod == MaxReqs + 1    \* the requests are counted in a uint8_t

\* The five GPIO writes that reset the SX1302 and the SX1261.
ResetPins(s) ==
  LET pin(t) == mcu_gpio_write(t) IN Also(Also(Also(Also(pin(s), pin), pin), pin), pin)

\* The attributes of the tty; a failure is a failure of the device.
set_interface_attribs_linux(s) == (UNION {Fails(t) : t \in Gone(s)}) \cup (IF s.alive THEN Succeeds(s) ELSE {})
set_blocking_linux(s) == set_interface_attribs_linux(s)

\* What waits in the tty is thrown away; late answers come after it.
EmptyTty(s) == [s EXCEPT !.tty = s.late, !.late = <<>>]

\* The port is opened and locked, the tty set up and emptied; the target is set
\* before the MCU is asked for its version and status and the chips are reset,
\* and it stays set when one of these fails (freed, in the last case).
lgw_usb_open(s) ==
  Then(set_interface_attribs_linux([s EXCEPT !.alive = TRUE]),
       LAMBDA o : Then(set_blocking_linux(EmptyTty(o.s)),
       LAMBDA p : Then(mcu_ping([p.s EXCEPT !.target = "open"]),
       LAMBDA q : Then(mcu_get_status(q.s),
       LAMBDA r : {IF x.ok THEN x ELSE [x EXCEPT !.s.target = "freed"] : x \in ResetPins(r.s)}))))

\* The chips are reset and the port closed, whatever the reset returned.
lgw_usb_close(s) == ResetPins(s)

\* A request is stored in bulk mode (and counted, even if the buffer was full)
\* and sent at once otherwise.
UsbRequest(s, op) ==
  IF s.mode = "bulk"
  THEN {[o EXCEPT !.s.nb = (@ + 1) % NbMod] : o \in mcu_spi_store(s, op)}
  ELSE mcu_spi_write(s, <<op>>)

lgw_usb_rmw(s, addr, field, v) == UsbRequest(s, [kind |-> "rmw", addr |-> addr, field |-> field, val |-> v])
lgw_usb_wb(s, addr, v) == UsbRequest(s, [kind |-> "w", addr |-> addr, val |-> v])
\* Reading makes no sense in bulk mode.
lgw_usb_rb(s, addr) == IF s.mode = "bulk" THEN Fails(s) ELSE mcu_spi_write(s, <<[kind |-> "r", addr |-> addr]>>)
lgw_usb_w(s, addr, v) == lgw_usb_wb(s, addr, v)
lgw_usb_r(s, addr) == lgw_usb_rb(s, addr)
lgw_usb_set_write_mode(s, mode) == Succeeds([s EXCEPT !.mode = mode])

\* Back to single mode; the stored requests are sent if any was counted, and the
\* count is cleared even when that fails.
lgw_usb_flush(s) ==
  LET single == [s EXCEPT !.mode = "single"]
  IN  IF s.mode # "bulk" THEN Fails(s)
      ELSE IF s.nb = 0 THEN Succeeds(single)
      ELSE {[o EXCEPT !.s.nb = 0] : o \in mcu_spi_flush(single)}

lgw_usb_get_temperature(s) == mcu_get_status(s)

------------------------------------------------------------------------------
(* loragw_spi.c *)

\* One ioctl on the device; the number of bytes it moved is compared with the
\* number asked for.
Transfer(s, op) ==
  (UNION {Fails(t) : t \in Gone(s)})
  \cup (IF s.alive THEN {[s |-> [s EXCEPT !.mem = Accessed(@, op)], ok |-> TRUE, val |-> s.mem[op.addr]]}
        ELSE {})

\* Four settings are written and read back; a failure closes the device.
lgw_spi_open(s) ==
  LET up == [s EXCEPT !.alive = TRUE]
  IN  Succeeds([up EXCEPT !.target = "open"]) \cup UNION {Fails(t) : t \in Gone(up)}
lgw_spi_close(s) == Succeeds(s) \cup UNION {Fails(t) : t \in Gone(s)}

lgw_spi_w(s, addr, v) == Transfer(s, [kind |-> "w", addr |-> addr, val |-> v])
lgw_spi_r(s, addr) == Transfer(s, [kind |-> "r", addr |-> addr])
lgw_spi_wb(s, addr, v) == Transfer(s, [kind |-> "w", addr |-> addr, val |-> v])
lgw_spi_rb(s, addr) == Transfer(s, [kind |-> "r", addr |-> addr])

\* The byte is written even when it could not be read (the other field is then
\* zero); the two results are added.
lgw_spi_rmw(s, addr, field, v) ==
  UNION {LET old == IF o.ok THEN o.val ELSE <<0, 0>>
         IN  {[p EXCEPT !.ok = @ /\ o.ok] : p \in lgw_spi_w(o.s, addr, [old EXCEPT ![field] = v])} :
           o \in lgw_spi_r(s, addr)}

------------------------------------------------------------------------------
(* loragw_com.c: the driver of the link's type; an error before any open. *)

Dispatch(s, spi, usb) == CASE s.type = "SPI" -> spi [] s.type = "USB" -> usb [] OTHER -> Fails(s)

lgw_com_w(s, addr, v) == Dispatch(s, lgw_spi_w(s, addr, v), lgw_usb_w(s, addr, v))
lgw_com_r(s, addr) == Dispatch(s, lgw_spi_r(s, addr), lgw_usb_r(s, addr))
lgw_com_rmw(s, addr, field, v) == Dispatch(s, lgw_spi_rmw(s, addr, field, v), lgw_usb_rmw(s, addr, field, v))
lgw_com_wb(s, addr, v) == Dispatch(s, lgw_spi_wb(s, addr, v), lgw_usb_wb(s, addr, v))
lgw_com_rb(s, addr) == Dispatch(s, lgw_spi_rb(s, addr), lgw_usb_rb(s, addr))
lgw_com_set_write_mode(s, mode) == Dispatch(s, Succeeds(s), lgw_usb_set_write_mode(s, mode))
lgw_com_flush(s) == Dispatch(s, Succeeds(s), lgw_usb_flush(s))
lgw_com_get_temperature(s) == Dispatch(s, Fails(s), lgw_usb_get_temperature(s))

\* The target is forgotten whatever closing returned.
lgw_com_close(s) ==
  IF s.target = "null" THEN Fails(s)
  ELSE {[o EXCEPT !.s.target = "null"] : o \in Dispatch(s, lgw_spi_close(s), lgw_usb_close(s))}

\* A link that is still open is closed first.
lgw_com_open(s, type) ==
  LET closed == IF s.target = "null" THEN {s} ELSE {o.s : o \in lgw_com_close(s)}
      typed  == {[c EXCEPT !.type = type] : c \in closed}
  IN  UNION {Dispatch(t, lgw_spi_open(t), lgw_usb_open(t)) : t \in typed}

------------------------------------------------------------------------------
(* The radios behind the SX1302 and the SX1261. *)

sx1250_spi_w(s, v) == Transfer(s, [kind |-> "w", addr |-> RadioReg, val |-> v])
sx1250_spi_r(s) == Transfer(s, [kind |-> "r", addr |-> RadioReg])
\* The USB requests of the radios are never stored.
sx1250_usb_w(s, v) == mcu_spi_write(s, <<[kind |-> "w", addr |-> RadioReg, val |-> v]>>)
sx1250_usb_r(s) == mcu_spi_write(s, <<[kind |-> "r", addr |-> RadioReg]>>)
sx1250_com_w(s, v) == Dispatch(s, sx1250_spi_w(s, v), sx1250_usb_w(s, v))
sx1250_com_r(s) == Dispatch(s, sx1250_spi_r(s), sx1250_usb_r(s))
sx1250_reg_w(s, v) == sx1250_com_w(s, v)
sx1250_reg_r(s) == sx1250_com_r(s)

sx125x_spi_w(s, v) == Transfer(s, [kind |-> "w", addr |-> RadioReg, val |-> v])
sx125x_spi_r(s) == Transfer(s, [kind |-> "r", addr |-> RadioReg])
\* Not supported over USB.
sx125x_com_w(s, v) == Dispatch(s, sx125x_spi_w(s, v), Fails(s))
sx125x_com_r(s) == Dispatch(s, sx125x_spi_r(s), Fails(s))
sx125x_reg_r(s) == sx125x_com_r(s)

\* A field is changed by reading and writing the byte, then read back: a write
\* that is not seen is an error, whatever the result of the reading was.
sx125x_reg_w(s, field, v) ==
  UNION {UNION {{[r EXCEPT !.ok = o.ok /\ p.ok /\ r.val[field] = v] : r \in sx125x_reg_r(p.s)} :
                  p \in sx125x_com_w(o.s, [o.val EXCEPT ![field] = v])} :
           o \in sx125x_com_r(s)}

\* The SX1261 shares the bulk buffer, not the mode and the count.
sx1261_spi_w(s, v) == Transfer(s, [kind |-> "w", addr |-> SxReg, val |-> v])
sx1261_spi_r(s) == Transfer(s, [kind |-> "r", addr |-> SxReg])
sx1261_usb_w(s, v) ==
  LET op == [kind |-> "w", addr |-> SxReg, val |-> v]
  IN  IF s.mode61 = "bulk"
      THEN {[o EXCEPT !.s.nb61 = (@ + 1) % NbMod] : o \in mcu_spi_store(s, op)}
      ELSE mcu_spi_write(s, <<op>>)
sx1261_usb_r(s) ==
  IF s.mode61 = "bulk" THEN Fails(s) ELSE mcu_spi_write(s, <<[kind |-> "r", addr |-> SxReg]>>)
sx1261_usb_set_write_mode(s, mode) == Succeeds([s EXCEPT !.mode61 = mode])
sx1261_usb_flush(s) ==
  LET single == [s EXCEPT !.mode61 = "single"]
  IN  IF s.mode61 # "bulk" THEN Fails(s)
      ELSE IF s.nb61 = 0 THEN Succeeds(single)
      ELSE {[o EXCEPT !.s.nb61 = 0] : o \in mcu_spi_flush(single)}
sx1261_com_w(s, v) == Dispatch(s, sx1261_spi_w(s, v), sx1261_usb_w(s, v))
sx1261_com_r(s) == Dispatch(s, sx1261_spi_r(s), sx1261_usb_r(s))
sx1261_com_set_write_mode(s, mode) == Dispatch(s, Succeeds(s), sx1261_usb_set_write_mode(s, mode))
sx1261_com_flush(s) == Dispatch(s, Succeeds(s), sx1261_usb_flush(s))

\* Over USB the link of the SX1302 is used; over SPI the SX1261 has a device of
\* its own.
sx1261_com_open(s) ==
  Dispatch(s, Succeeds([s EXCEPT !.target61 = "open"]) \cup UNION {Fails(t) : t \in Gone(s)},
              Succeeds([s EXCEPT !.target61 = s.target]))
sx1261_com_close(s) == Succeeds([s EXCEPT !.target61 = "null"])

------------------------------------------------------------------------------
(* loragw_reg.c and the firmware loaders *)

\* A register of a whole byte is written directly, a field of a byte by a
\* read-modify-write (field 0 stands for the whole byte).
reg_w(s, field, v) == IF field = 0 THEN lgw_com_w(s, Reg, <<v, v>>) ELSE lgw_com_rmw(s, Reg, field, v)
reg_r(s) == lgw_com_r(s, Reg)
lgw_reg_w(s, field, v) == reg_w(s, field, v)
lgw_reg_r(s) == reg_r(s)
lgw_reg_wb(s, v) == lgw_com_wb(s, Reg, <<v, v>>)
lgw_reg_rb(s) == lgw_com_rb(s, Reg)

\* The image is written burst by burst: the result is the one of the last burst.
lgw_mem_wb(s, img) ==
  LET burst[n \in 0 .. Chunks] ==
        IF n = 0 THEN Succeeds(s)
        ELSE UNION {lgw_com_wb(o.s, n, <<img, n>>) : o \in burst[n - 1]}
  IN  burst[Chunks]

\* The memory is read burst by burst into a buffer; a burst that fails leaves
\* what the buffer held, and only the result of the last is returned.
lgw_mem_rb(s, buf) ==
  LET burst[n \in 0 .. Chunks] ==
        IF n = 0 THEN {[s |-> s, ok |-> TRUE, val |-> buf]}
        ELSE UNION {{[r EXCEPT !.val = IF r.ok THEN [o.val EXCEPT ![n] = r.val] ELSE o.val] :
                       r \in lgw_com_rb(o.s, n)} : o \in burst[n - 1]}
  IN  burst[Chunks]

\* What the buffer on the stack holds before it is read into: not the image.
Garbage == [n \in 1 .. Chunks |-> <<0, 0>>]
Image(img) == [n \in 1 .. Chunks |-> <<img, n>>]

\* The MCU is stopped, its image written, read back and compared, and the MCU
\* released; any error is returned at the end.
sx1302_agc_load_firmware(s, img) ==
  LET taken == lgw_reg_w(s, 1, 1)
      written == Also(taken, LAMBDA t : lgw_mem_wb(t, img))
      read == Also(written, LAMBDA t : lgw_mem_rb(t, Garbage))
  IN  UNION {IF o.val # Image(img) THEN Fails(o.s)
             ELSE {[p EXCEPT !.ok = @ /\ o.ok] : p \in lgw_reg_w(o.s, 1, 0)} : o \in read}
sx1302_arb_load_firmware(s, img) == sx1302_agc_load_firmware(s, img)

\* The version of the chip is read once the link is open.
lgw_connect(s, type) == Then(lgw_com_open(s, type), LAMBDA o : lgw_com_r(o.s, Reg))
lgw_disconnect(s) == lgw_com_close(s)

------------------------------------------------------------------------------
(* The process that uses the link. *)

LinkInit ==
  /\ link = FreshLink
  /\ open = FALSE
  /\ ret = [op |-> "none", ok |-> TRUE, val |-> <<0, 0>>]
  /\ want = Reset
  /\ failed = FALSE
  /\ crashes = 0

\* An operation with the outcomes outs; intended is the memory it should leave.
Operation(name, outs, intended) ==
  /\ \E o \in outs :
       /\ link' = o.s
       /\ ret' = [op |-> name, ok |-> o.ok, val |-> IF name = "read" THEN o.val ELSE <<0, 0>>]
       /\ failed' = (failed \/ ~o.ok)
       /\ want' = IF failed' THEN Reset ELSE intended
  /\ UNCHANGED crashes

Connect(type) ==
  /\ ~open
  /\ \E o \in lgw_connect(link, type) :
       /\ link' = o.s
       /\ open' = o.ok
       /\ ret' = [op |-> "other", ok |-> o.ok, val |-> <<0, 0>>]
       /\ failed' = (failed \/ ~o.ok)
       /\ want' = IF failed' THEN Reset ELSE o.s.mem
  /\ UNCHANGED crashes

\* Never between the start of a bulk and its flush, unless an error ended it.
Disconnect ==
  /\ open
  /\ failed \/ "bulk" \notin {link.mode, link.mode61}
  /\ open' = FALSE
  /\ Operation("other", lgw_disconnect(link), Reset)

\* After an error only the reconnections and the firmware loads are followed: the
\* properties say nothing of the other operations then.
Usable == open /\ ~failed

\* The registers: in bulk mode a write is only stored.
WriteRegister(field, v) ==
  /\ Usable /\ UNCHANGED open
  /\ Operation("other", lgw_reg_w(link, field, v),
               IF field = 0 THEN [want EXCEPT ![Reg] = <<v, v>>] ELSE [want EXCEPT ![Reg][field] = v])

WriteBurst(v) ==
  /\ Usable /\ UNCHANGED open
  /\ Operation("other", lgw_reg_wb(link, v), [want EXCEPT ![Reg] = <<v, v>>])

ReadRegister ==
  /\ Usable /\ UNCHANGED open
  /\ Operation("read", lgw_reg_r(link) \cup lgw_reg_rb(link), want)

WriteRadio(field, v) ==
  /\ Usable /\ UNCHANGED open
  /\ \/ Operation("other", sx1250_reg_w(link, <<v, v>>), [want EXCEPT ![RadioReg] = <<v, v>>])
     \/ Operation("other", sx125x_reg_w(link, field, v), [want EXCEPT ![RadioReg][field] = v])
     \/ Operation("other", sx1250_reg_r(link), want)

WriteSx1261(v) ==
  /\ Usable /\ UNCHANGED open
  /\ \/ Operation("other", sx1261_com_open(link), want)
     \/ Operation("other", sx1261_com_w(link, <<v, v>>), [want EXCEPT ![SxReg] = <<v, v>>])
     \/ Operation("other", sx1261_com_r(link), want)
     \/ Operation("other", sx1261_com_close(link), want)

\* sx1302_send and sx1261_set_rx_params send their writes in bulk, then go back
\* to single mode.
StartBulk ==
  /\ Usable /\ UNCHANGED open
  /\ \/ link.mode61 = "single" /\ Operation("other", lgw_com_set_write_mode(link, "bulk"), want)
     \/ link.mode = "single" /\ Operation("other", sx1261_com_set_write_mode(link, "bulk"), want)

Flush ==
  /\ Usable /\ UNCHANGED open
  /\ \/ link.mode = "bulk" /\ Operation("other", lgw_com_flush(link), want)
     \/ link.mode61 = "bulk" /\ Operation("other", sx1261_com_flush(link), want)

LoadFirmware(img) ==
  /\ open /\ UNCHANGED open
  /\ link.mode = "single"
  /\ Operation("load", sx1302_agc_load_firmware(link, img) \cup sx1302_arb_load_firmware(link, img),
               [a \in Addresses |-> IF a \in 1 .. Chunks THEN <<img, a>>
                                    ELSE IF a = Reg THEN [want[Reg] EXCEPT ![1] = 0] ELSE want[a]])

Temperature ==
  /\ Usable /\ UNCHANGED open
  /\ Operation("other", lgw_com_get_temperature(link), want)

\* The process dies, perhaps between a request and its answer, which then waits
\* in the tty or comes later.
Crash ==
  /\ crashes < MaxCrashes
  /\ link.alive
  /\ crashes' = crashes + 1
  /\ open' = FALSE
  /\ ret' = [op |-> "crash", ok |-> TRUE, val |-> <<0, 0>>]
  /\ want' = Reset
  /\ failed' = FALSE
  /\ \E kind \in {"none", "gpio", "spi"}, late \in BOOLEAN :
       LET answer == IF kind = "none" THEN <<>> ELSE <<[kind |-> kind, good |-> TRUE, val |-> <<0, 0>>]>>
           waiting == link.tty \o link.late
       IN  link' = NewProcess(IF late THEN link.tty ELSE waiting \o answer,
                              IF late THEN link.late \o answer ELSE <<>>, link.faults, link.mem)

LinkNext ==
  \/ \E type \in {"SPI", "USB"} : Connect(type)
  \/ Disconnect
  \/ \E f \in 0 .. 1, v \in Values : WriteRegister(f, v)
  \/ \E v \in Values : WriteBurst(v)
  \/ ReadRegister
  \/ \E v \in RadioValues : WriteRadio(1, v)
  \/ \E v \in RadioValues : WriteSx1261(v)
  \/ StartBulk
  \/ Flush
  \/ \E img \in Images : LoadFirmware(img)
  \/ Temperature
  \/ Crash

LinkSpec == LinkInit /\ [][LinkNext]_linkVars

------------------------------------------------------------------------------
\* While no operation of the process failed, the memory of the device is what
\* the writes the host was told to have succeeded made of it (once the stored
\* ones are sent), and a read returns what the device holds: whatever the
\* processes before this one left in the tty, on SPI and over USB, with single
\* and with stored requests, of whole registers and of fields.
LinkFaithful ==
  open /\ ~failed =>
    /\ AllAccessed(link.mem, link.bulk) = want
    /\ ret.op = "read" => ret.val = link.mem[Reg]

\* A firmware load that reports success left the whole image in the memory,
\* although lgw_mem_wb and lgw_mem_rb forget the failure of every burst but the
\* last.
FirmwareIntact ==
  ret.op = "load" /\ ret.ok => \E img \in Images : \A n \in 1 .. Chunks : link.mem[n] = <<img, n>>

\* What the HAL believes of the memory behind the link is so.
LinkRight == LinkFaithful /\ FirmwareIntact
=============================================================================
