------------------------------ MODULE HvShield ------------------------------
(***************************************************************************)
(* The high-voltage shield: drivers/hv_shield/hv_shield/hv_shield.c keeps  *)
(* a copy of the 40-bit shift register that gives the direction of 32 IOs  *)
(* and two DAC gains, and sends all of it over SPI at every change;        *)
(* gpio/hv_shield_gpio.c configures an IO at the processor and at the      *)
(* shield, and dac/hv_shield_dac.c sets the gains when it starts, as any   *)
(* thread may later.  None of them has a lock.                             *)
(*                                                                         *)
(* The levels of the IOs are written to and read from the processor's pins *)
(* and touch neither the copy nor the shield, their interrupts are passed  *)
(* on to the processor's GPIO unchanged and callbacks are refused: all of  *)
(* that is left out, and with it input_map, which only masks the reading.  *)
(***************************************************************************)
EXTENDS Naturals, Sequences, FiniteSets

CONSTANTS
  HvThreads,   \* threads that configure and set IOs
  HvPins,      \* the IOs they use
  HvGains,     \* the gains property of the device tree, one per DAC
  HvCallGains, \* the gains that threads set
  HvMaxCalls,  \* bound: calls
  HvMaxFaults  \* bound: failing GPIO calls and SPI transfers

ASSUME HvAssumption ==
  /\ HvPins \subseteq 0 .. 31
  /\ HvGains \in [0 .. 1 -> Nat]
  /\ HvCallGains \subseteq {1, 2, 4, 8, 16}   \* hv_shield_dac_gains_t
  /\ {HvMaxCalls, HvMaxFaults} \subseteq Nat

VARIABLES
  registers,   \* the copy: bits 0-31 of gpio_output, 32-35 dac0, 36-39 dac1
  stages,      \* the latched stages of the shift registers that are high
  oe,          \* whether their outputs are enabled
  boot,        \* next initialisation step
  output_map,
  lv,          \* the IOs whose pin of the processor is an output
  hvCall,      \* what each thread is doing
  hvBounds,    \* calls and faults so far
  settings,    \* history: for each target, the values it may have after the
               \* calls so far, as the set of its bits that are 1
  overlapped,  \* history: two calls were in progress at once
  outputs      \* history: the IOs some call wanted to be outputs

hvVars == <<registers, stages, oe, boot, output_map, lv, hvCall, hvBounds,
            settings, overlapped, outputs>>

hvIdle == [at |-> "idle"]

hvAt(t, label) == hvCall[t].at = label

hvGoto(t, rec) == hvCall' = [hvCall EXCEPT ![t] = rec]

(* A GPIO call or an SPI transfer works, or fails before or after it had   *)
(* its effect.                                                             *)
Results ==
  {o \in [ok : BOOLEAN, effect : BOOLEAN] :
     IF o.ok THEN o.effect ELSE hvBounds.faults < HvMaxFaults}

CountFault(o) == hvBounds' = [hvBounds EXCEPT !.faults = IF o.ok THEN @ ELSE @ + 1]

(* Mutant: the bit is the index.                                           *)
DirectionBitPlain(index) == index

(* The register bit of an IO: the halves of each byte are swapped.         *)
DirectionBit(index) == IF index % 8 < 4 THEN index + 4 ELSE index - 4

(* The amplifier bits of a raw gain; other gains are refused.              *)
hvs_dac_convert_gain(raw) ==
  CASE raw = 1 -> {} [] raw = 2 -> {0} [] raw = 4 -> 0 .. 1
    [] raw = 8 -> 0 .. 2 [] raw = 16 -> 0 .. 3

SupportedGains == {1, 2, 4, 8, 16}

(* What a call sets: an IO, or with 32 and 33 a DAC.                      *)
HvTargets == HvPins \union {32, 33}

Dac(dac) == 32 + dac

(* The bits of a target, and the member of the packed struct they are in.  *)
Field(k) == IF k < 32 THEN {DirectionBit(k)} ELSE 32 + 4 * (k - 32) .. 35 + 4 * (k - 32)

Word(k) == IF k < 32 THEN 0 .. 31 ELSE 32 .. 39

GainBits(dac, raw) == {32 + 4 * dac + i : i \in hvs_dac_convert_gain(raw)}

(* The k-th bit on the SPI: the bytes are reversed, each goes out most     *)
(* significant bit first.                                                  *)
SpiBit(k) == 8 * (4 - (k \div 8)) + (7 - (k % 8))

(* External: after 40 clocks the first bit is in the last stage.           *)
Shifted(raw) == {39 - k : k \in {j \in 0 .. 39 : SpiBit(j) \in raw}}

HvInit ==
  /\ registers = {}
  /\ stages \in SUBSET {4, 37}   \* undefined after power-on
  /\ oe = FALSE
  /\ boot = "enable pin"
  /\ output_map = {} /\ lv = {}
  /\ hvCall = [t \in HvThreads |-> hvIdle]
  /\ hvBounds = [calls |-> 0, faults |-> 0]
  /\ settings = [k \in HvTargets |-> {{}}]
  /\ overlapped = FALSE
  /\ outputs = {}

(* A target gets the value; after a failure it may also have the old one.  *)
Setting(k, value, ok) ==
  settings' = [settings EXCEPT ![k] = {value} \union (IF ok THEN {} ELSE @)]

(* hv_shield_init, then hv_shield_dac_init; a failure of the first leaves  *)
(* the outputs disabled and does not stop the second.                      *)
hv_shield_init ==
  /\ \E o \in Results :
       /\ CountFault(o)
       /\ \/ /\ boot = "enable pin"          \* gpio_pin_configure_dt(oe, INACTIVE)
             /\ boot' = IF o.ok THEN "registers" ELSE "dac 0"
             /\ UNCHANGED <<registers, stages, oe>>
          \/ /\ boot = "registers"           \* memset, _hv_shield_update
             /\ registers' = {}
             /\ stages' = IF o.effect THEN Shifted({}) ELSE stages
             /\ boot' = IF o.ok THEN "outputs" ELSE "dac 0"
             /\ UNCHANGED oe
          \/ /\ boot = "outputs"             \* gpio_pin_set_dt(oe, 1)
             /\ oe' = o.effect
             /\ boot' = "dac 0"
             /\ UNCHANGED <<registers, stages>>
  /\ UNCHANGED <<output_map, lv, hvCall, settings, overlapped, outputs>>

hv_shield_dac_init(dac) ==
  /\ boot = IF dac = 0 THEN "dac 0" ELSE "dac 1"
  /\ IF HvGains[dac] \notin SupportedGains
     THEN boot' = "done" /\ UNCHANGED <<registers, stages, hvBounds, settings>>
     ELSE /\ registers' = (registers \ Field(Dac(dac))) \union GainBits(dac, HvGains[dac])
          /\ \E o \in Results :
               /\ CountFault(o)
               /\ stages' = IF o.effect THEN Shifted(registers') ELSE stages
               /\ Setting(Dac(dac), GainBits(dac, HvGains[dac]), o.ok)
               /\ boot' = IF o.ok /\ dac = 0 THEN "dac 1" ELSE "done"
  /\ UNCHANGED <<oe, output_map, lv, hvCall, overlapped, outputs>>

Busy == \E t \in HvThreads : hvCall[t] # hvIdle

(* A thread enters the driver.                                             *)
hvStart(t, rec) ==
  /\ boot = "done" /\ hvAt(t, "idle") /\ hvBounds.calls < HvMaxCalls
  /\ overlapped' = (overlapped \/ Busy)
  /\ hvGoto(t, rec)

hvUpdate(k, value) == [at |-> "load", target |-> k, value |-> value, new |-> {}, left |-> 5]

(* The set of IOs with p in it, or not.                                    *)
Put(ios, p, in) == IF in THEN ios \union {p} ELSE ios \ {p}

(* hvs_gpio_pin_configure up to the configuration of the processor's pin.  *)
hvs_gpio_pin_configure(t) ==
  /\ \E p \in HvPins, out \in BOOLEAN, o \in Results :
       LET value == IF out THEN Field(p) ELSE {} IN
       /\ lv' = IF o.effect THEN Put(lv, p, out) ELSE lv
       /\ hvBounds' = [calls |-> hvBounds.calls + 1,
                       faults |-> IF o.ok THEN hvBounds.faults ELSE hvBounds.faults + 1]
       /\ outputs' = IF out THEN outputs \union {p} ELSE outputs
       /\ hvStart(t, IF o.ok THEN hvUpdate(p, value) ELSE hvIdle)
       /\ IF o.ok THEN UNCHANGED settings ELSE Setting(p, value, FALSE)
  /\ UNCHANGED <<registers, stages, oe, boot, output_map>>

hv_shield_set_dac_gain(t) ==
  /\ \E dac \in 0 .. 1, raw \in HvCallGains :
       hvStart(t, hvUpdate(Dac(dac), GainBits(dac, raw)))
  /\ hvBounds' = [hvBounds EXCEPT !.calls = @ + 1]
  /\ UNCHANGED <<registers, stages, oe, boot, output_map, lv, settings, outputs>>

(* A member of the copy is loaded, changed and stored, and then the copy   *)
(* is turned round byte by byte, from the last one.                        *)
LoadRegisters(t) ==
  /\ hvAt(t, "load")
  /\ LET r == hvCall[t]
         new == ((registers \intersect Word(r.target)) \ Field(r.target)) \union r.value
     IN hvGoto(t, [r EXCEPT !.at = "store", !.new = new])
  /\ UNCHANGED <<registers, stages, oe, boot, output_map, lv, hvBounds, settings,
                 overlapped, outputs>>

StoreRegisters(t) ==
  /\ hvAt(t, "store")
  /\ registers' = (registers \ Word(hvCall[t].target)) \union hvCall[t].new
  /\ hvGoto(t, [hvCall[t] EXCEPT !.at = "copy", !.new = {}])
  /\ UNCHANGED <<stages, oe, boot, output_map, lv, hvBounds, settings, overlapped, outputs>>

CopyByte(t) ==
  /\ hvAt(t, "copy")
  /\ LET r == hvCall[t]
         byte == 8 * (r.left - 1) .. 8 * r.left - 1
     IN hvGoto(t, [r EXCEPT !.new = @ \union (registers \intersect byte),
                            !.left = @ - 1,
                            !.at = IF r.left = 1 THEN "spi" ELSE "copy"])
  /\ UNCHANGED <<registers, stages, oe, boot, output_map, lv, hvBounds, settings,
                 overlapped, outputs>>

(* spi_write_dt; its failure leaves the copy changed.                      *)
SpiWrite(t) ==
  /\ hvAt(t, "spi")
  /\ LET r == hvCall[t] IN
     \E o \in Results :
       /\ CountFault(o)
       /\ stages' = IF o.effect THEN Shifted(r.new) ELSE stages
       /\ Setting(r.target, r.value, o.ok)
       /\ hvGoto(t, IF o.ok /\ r.target < 32 THEN [r EXCEPT !.at = "maps"] ELSE hvIdle)
  /\ UNCHANGED <<registers, oe, boot, output_map, lv, overlapped, outputs>>

UpdateMaps(t) ==
  /\ hvAt(t, "maps")
  /\ output_map' = Put(output_map, hvCall[t].target, hvCall[t].value # {})
  /\ hvGoto(t, hvIdle)
  /\ UNCHANGED <<registers, stages, oe, boot, lv, hvBounds, settings, overlapped, outputs>>

HvNext ==
  \/ hv_shield_init
  \/ \E dac \in 0 .. 1 : hv_shield_dac_init(dac)
  \/ \E t \in HvThreads :
       \/ hvs_gpio_pin_configure(t)
       \/ hv_shield_set_dac_gain(t)
       \/ LoadRegisters(t)
       \/ StoreRegisters(t)
       \/ CopyByte(t)
       \/ SpiWrite(t)
       \/ UpdateMaps(t)

(***************************************************************************)
(* Properties.                                                             *)
(***************************************************************************)

(* The stages that show a target: 0-3 drive the pins 5-8, 4-7 the pins     *)
(* 1-4, and so on (DDR bitmap, hv_shield/doc/io_config_register), IO p is  *)
(* pin p + 1; 32-35 are the amplifier of the first DAC, 36-39 the other's. *)
Stages(k) ==
  IF k < 32 THEN {8 * (k \div 8) + ((k + 4) % 8)} ELSE 32 + 4 * (k - 32) .. 35 + 4 * (k - 32)

Shown(k, ios) == IF k \in ios THEN Stages(k) ELSE {}

(* With the shield's outputs enabled, an IO is driven only if a call asked *)
(* for it, whatever the shift registers held after power-on, whatever      *)
(* failed, and with calls of several threads overlapping at any point.  As *)
(* long as calls do not overlap, the shield, the processor's pins and the  *)
(* direction the GPIO API reports agree with the calls that worked, up to  *)
(* what a later failed one asked for: the next call may carry that out.    *)
DirectionsAgree ==
  oe =>
    /\ stages \intersect 0 .. 31 \subseteq UNION {Stages(p) : p \in outputs}
    /\ (boot = "done" /\ ~overlapped /\ ~Busy) =>
         /\ \A k \in HvTargets : stages \intersect Stages(k) \in settings[k]
         /\ \A p \in HvPins : {Shown(p, output_map), Shown(p, lv)} \subseteq settings[p]
=============================================================================
