--------------------------- MODULE ModbusSettings ---------------------------
(***************************************************************************)
(* The device settings kept in the EEPROM, and the Modbus requests that    *)
(* read and change them.                                                   *)
(*                                                                         *)
(* A request that changes a setting loads all of them, page by page,       *)
(* changes one and saves all of them, page by page, the check-sum last; it *)
(* is let through while reg_config_write is not zero, a register the event *)
(* loop counts down.  Requests over the serial line are served by the      *)
(* event loop.  Those over UDP are served by the event loop or, when the   *)
(* MAC interrupts, by the interrupt handler, which stops the loop in the   *)
(* middle of whatever it does: another request, a transfer on the I2C bus, *)
(* or the countdown.                                                       *)
(*                                                                         *)
(* Each setting is given a page of its own, and the check-sum (perfect     *)
(* here: it is the settings it was computed from) a further one.  A        *)
(* request refused by the gate changes nothing and is left out.            *)
(***************************************************************************)
EXTENDS Integers

CONSTANTS NumPages,     \* pages that hold settings
          Values,       \* what a setting may be
          Defaults,     \* default_config
          Torn,         \* what a page holds, or a transfer yields, when cut short
          Requests,     \* requests clients make about settings
          GateMax,      \* greatest value of the 32-bit reg_config_write
          GateValues,   \* what clients write to it
          MaxUdp        \* bound on the datagrams that interrupt the loop

Pages == 1..NumPages
Settings == [Pages -> Values]
CheckPage == NumPages + 1
Contexts == {"loop", "handler"}
AllRequests == [kind: {"get", "set"}, setting: Pages, value: Values]

ASSUME SettingsAssumption ==
    /\ NumPages \in Nat \ {0}
    /\ Defaults \in Settings
    /\ Torn \notin Values /\ Torn \notin [Pages -> Values \union {Torn}]
    /\ Requests \subseteq AllRequests
    /\ GateMax \in Nat \ {0} /\ GateValues \subseteq 0..GateMax
    /\ MaxUdp \in Nat

VARIABLES pages,        \* EEPROM: the pages with settings
          check,        \* EEPROM: the page with the check-sum
          programming,  \* EEPROM: page being programmed, 0 when ready
          gate,         \* reg_config_write
          held,         \* the loop's copy of it while it counts down
          job,          \* what each context does: a request, or the countdown
          udp,          \* datagrams served by the handler so far
          promised,     \* history: settings according to the OKs given
          damaged,      \* history: the store may not keep that promise
          attempts      \* history: what was being saved since it last did

eeprom == <<pages, check, programming>>
history == <<promised, damaged, attempts>>
settingsVars == <<pages, check, programming, gate, held, job, udp, promised, damaged, attempts>>

NoRequest == [kind |-> "get", setting |-> 1, value |-> Defaults[1]]

(* A context's job: the request, the page to transfer next, the Config on   *)
(* its stack, and whether its transfer was cut by the other context's; as   *)
(* history, whether the defaults stand in for a failed load, and whether    *)
(* another request came in between.                                         *)
Jobs == [pc: {"boot", "idle", "load", "save", "settle", "reread", "put"},
         request: AllRequests, page: 1..CheckPage,
         copy: [Pages -> Values \union {Torn}], cut: BOOLEAN,
         lossy: BOOLEAN, overlapped: BOOLEAN]

JobAt(place) == [pc |-> place, request |-> NoRequest, page |-> 1, copy |-> Defaults,
                 cut |-> FALSE, lossy |-> FALSE, overlapped |-> FALSE]

Busy(c) == job[c].pc \in {"load", "save", "settle"}
Saving(c) == job[c].pc \in {"save", "settle"}

\* A save that stops here leaves some pages changed and others not.
HalfDone(c) == job[c].pc = "settle" \/ (job[c].pc = "save" /\ job[c].page > 1)

SettingsTypeOK ==
    /\ pages \in [Pages -> Values \union {Torn}]
    /\ check \in Settings \union {Torn}
    /\ programming \in 0..CheckPage
    /\ gate \in 0..GateMax /\ held \in 0..GateMax
    /\ job \in [Contexts -> Jobs]
    /\ udp \in 0..MaxUdp
    /\ promised \in Settings /\ damaged \in BOOLEAN /\ attempts \subseteq Settings
    /\ job["handler"].pc \in {"idle", "load", "save", "settle"}
    /\ \A c \in Contexts : Saving(c) => job[c].copy \in Settings

\* The loop stands still while the handler runs.
Runs(c) == c = "handler" \/ ~Busy("handler")

\* A bug: the check-sum covers too few bytes.
ChecksOutShort(image, sum) == sum # Torn /\ image[1] = sum[1]

\* The test at the end of config_load.
ChecksOut(image, sum) == sum = image

SettingsInit ==
    /\ \/ pages = Defaults /\ check = Defaults /\ damaged = FALSE
       \/ pages = [p \in Pages |-> Torn] /\ check = Torn /\ damaged = TRUE  \* never written
    /\ programming = 0
    /\ gate = 0 /\ held = 0
    /\ job = [c \in Contexts |-> JobAt(IF c = "loop" THEN "boot" ELSE "idle")]
    /\ udp = 0
    /\ promised = Defaults /\ attempts = {}

-----------------------------------------------------------------------------
(* A request arrives. *)

Receives(c) ==
    /\ job[c].pc = "idle" /\ Runs(c)
    /\ c = "handler" => job["loop"].pc # "boot" /\ udp < MaxUdp
    /\ udp' = IF c = "handler" THEN udp + 1 ELSE udp

\* modbus_store_reg lets a setting be changed while the register is not zero.
GateOpen == gate # 0

\* The handler may take over in the middle of a transfer of the loop's; the
\* outcome of both its own transfer and the loop's is then anybody's guess.
Cuts(c) == IF c = "handler" /\ Busy("loop") THEN BOOLEAN ELSE {FALSE}

BeginRequest(c, r) ==
    /\ Receives(c)
    /\ r.kind = "set" => GateOpen
    /\ \E midway \in Cuts(c) :
          LET mine == [JobAt("load") EXCEPT !.request = r, !.cut = midway,
                          !.overlapped = midway \/ (c = "handler" /\ Saving("loop"))]
              others == [job EXCEPT
                            !["loop"].cut = @ \/ midway,
                            !["loop"].overlapped = @ \/ (Busy("loop") /\ (midway \/ r.kind = "set"))]
          IN  job' = [others EXCEPT ![c] = mine]
    /\ UNCHANGED <<eeprom, gate, held, history>>

\* REG_CONFIG_WRITE needs no gate and takes effect at once.
WriteGate(c, value) ==
    /\ Receives(c)
    /\ gate' = value
    /\ UNCHANGED <<eeprom, held, job, history>>

-----------------------------------------------------------------------------
(* config_load *)

\* config_load has returned; a request that only reads answers now.
Loaded(c, config, failed) ==
    LET r == job[c].request
        new == [config EXCEPT ![r.setting] = r.value]
    IN  IF r.kind = "get"
          THEN job' = [job EXCEPT ![c] = JobAt("idle")] /\ UNCHANGED attempts
          ELSE /\ job' = [job EXCEPT ![c] = [@ EXCEPT !.pc = "save", !.page = 1, !.copy = new,
                                                      !.cut = FALSE, !.lossy = failed]]
               /\ attempts' = attempts \union {new}

\* What a transfer may yield that should have brought `content`.
Yields(c, content) == IF job[c].cut THEN {content, Torn} ELSE {content}

ReadCell(c) ==
    LET p == job[c].page
    IN  /\ p \in Pages
        /\ \E got \in Yields(c, pages[p]) :
              job' = [job EXCEPT ![c].copy = [@ EXCEPT ![p] = got], ![c].page = p + 1, ![c].cut = FALSE]
        /\ UNCHANGED attempts

ReadCheck(c) ==
    /\ job[c].page = CheckPage
    /\ \E sum \in Yields(c, check) :
          Loaded(c, IF ChecksOut(job[c].copy, sum) THEN job[c].copy ELSE Defaults, FALSE)

\* The EEPROM does not answer, which it never does while it is programming.
ReadPage(c) ==
    /\ job[c].pc = "load" /\ Runs(c)
    /\ \/ /\ programming = 0 \/ job[c].cut
          /\ ReadCell(c) \/ ReadCheck(c)
       \/ Loaded(c, Defaults, TRUE)
    /\ UNCHANGED <<eeprom, gate, held, udp, promised, damaged>>

-----------------------------------------------------------------------------
(* config_save *)

Put(c) ==
    LET p == job[c].page
    IN  /\ programming = 0
        /\ IF p = CheckPage
             THEN check' = job[c].copy /\ UNCHANGED pages
             ELSE pages' = [pages EXCEPT ![p] = job[c].copy[p]] /\ UNCHANGED check
        /\ programming' = p

\* The request is answered with an error.
GiveUp(c, harm) ==
    /\ job' = [job EXCEPT ![c] = JobAt("idle")]
    /\ damaged' = (damaged \/ harm)

ToSettle(c) ==
    /\ job' = [job EXCEPT ![c].pc = "settle", ![c].cut = FALSE]
    /\ UNCHANGED damaged

\* A cut transfer may look good without having written anything; one that
\* looks bad may have.
WritePage(c) ==
    /\ job[c].pc = "save" /\ Runs(c)
    /\ \/ Put(c) /\ ToSettle(c)
       \/ job[c].cut /\ ToSettle(c) /\ UNCHANGED eeprom
       \/ Put(c) /\ GiveUp(c, TRUE)
       \/ GiveUp(c, HalfDone(c)) /\ UNCHANGED eeprom
    /\ UNCHANGED <<gate, held, udp, promised, attempts>>

\* The request is answered with OK.
Acknowledge(c) ==
    LET r == job[c].request
    IN  /\ job' = [job EXCEPT ![c] = JobAt("idle")]
        /\ IF job[c].overlapped
             THEN damaged' = TRUE /\ UNCHANGED <<promised, attempts>>
             ELSE /\ damaged' = FALSE
                  /\ promised' = IF damaged \/ job[c].lossy
                                   THEN job[c].copy
                                   ELSE [promised EXCEPT ![r.setting] = r.value]
                  /\ attempts' = {job[x].copy : x \in {y \in Contexts \ {c} : Saving(y)}}

\* A bug: the next page is written without waiting for the EEPROM.
RecoveredAtOnce(c) ==
    IF job[c].page = CheckPage
      THEN Acknowledge(c)
      ELSE /\ job' = [job EXCEPT ![c].page = @ + 1, ![c].pc = "save", ![c].cut = FALSE]
           /\ UNCHANGED history

\* eeprom_poll finds the EEPROM ready ...
Recovered(c) ==
    /\ programming = 0 \/ job[c].cut
    /\ IF job[c].page = CheckPage
         THEN Acknowledge(c)
         ELSE /\ job' = [job EXCEPT ![c].page = @ + 1, ![c].pc = "save", ![c].cut = FALSE]
              /\ UNCHANGED history

\* A bug: the EEPROM is polled without end.
PollGivesUpNever(c) == FALSE

\* ... or has not in ten attempts.
PollGivesUp(c) == GiveUp(c, TRUE) /\ UNCHANGED <<promised, attempts>>

Settle(c) ==
    /\ job[c].pc = "settle" /\ Runs(c)
    /\ Recovered(c) \/ PollGivesUp(c)
    /\ UNCHANGED <<eeprom, gate, held, udp>>

\* The EEPROM ends a write cycle of its own accord, some day.
Programmed ==
    /\ programming # 0
    /\ programming' = 0
    /\ UNCHANGED <<pages, check, gate, held, job, udp, history>>

-----------------------------------------------------------------------------
(* The countdown: a test, a second read and a write, in the event loop. *)

LoopAt(place, next) ==
    /\ job["loop"].pc = place /\ Runs("loop")
    /\ job' = [job EXCEPT !["loop"] = JobAt(next)]
    /\ UNCHANGED <<eeprom, udp, history>>

CountTest == LoopAt("idle", "reread") /\ gate # 0 /\ UNCHANGED <<gate, held>>
CountRead == LoopAt("reread", "put") /\ held' = gate /\ UNCHANGED gate
CountPut  == LoopAt("put", "idle") /\ gate' = (held - 1) % (GateMax + 1) /\ held' = 0

-----------------------------------------------------------------------------
(* Restarts. *)

Down ==
    /\ job' = [c \in Contexts |-> JobAt(IF c = "loop" THEN "boot" ELSE "idle")]
    /\ damaged' = (damaged \/ \E c \in Contexts : HalfDone(c))
    /\ gate' = 0 /\ held' = 0
    /\ UNCHANGED <<promised, attempts>>

\* A page that was being programmed may be torn.
PowerLoss ==
    /\ Down
    /\ programming' = 0
    /\ \/ UNCHANGED <<pages, check>>
       \/ programming \in Pages /\ pages' = [pages EXCEPT ![programming] = Torn] /\ UNCHANGED check
       \/ programming = CheckPage /\ check' = Torn /\ UNCHANGED pages
    /\ UNCHANGED udp

\* REG_REBOOT: the processor restarts, the EEPROM goes on with what it does.
Reboot(c) ==
    /\ Receives(c)
    /\ Down
    /\ UNCHANGED eeprom

\* The start takes what config_load finds, or the defaults; changes neither.
Boot ==
    /\ job["loop"].pc = "boot"
    /\ job' = [job EXCEPT !["loop"] = JobAt("idle")]
    /\ UNCHANGED <<eeprom, gate, held, udp, history>>

-----------------------------------------------------------------------------

Serve(c) == ReadPage(c) \/ WritePage(c) \/ Settle(c)

SettingsNext ==
    \/ \E c \in Contexts :
          \/ \E r \in Requests : BeginRequest(c, r)
          \/ \E value \in GateValues : WriteGate(c, value)
          \/ Reboot(c)
          \/ Serve(c)
    \/ CountTest \/ CountRead \/ CountPut
    \/ Programmed
    \/ PowerLoss
    \/ Boot

\* A processor that is running runs: no fairness is asked of the EEPROM.
SettingsFairness == \A c \in Contexts : WF_settingsVars(Serve(c))

SettingsSpec == SettingsInit /\ [][SettingsNext]_settingsVars /\ SettingsFairness

-----------------------------------------------------------------------------

\* What the next load will find.
Loadable == IF ChecksOut(pages, check) THEN pages ELSE Defaults

(* A setting acknowledged with OK is in the EEPROM with all the others as    *)
(* they were, whatever restarts follow: unless a save failed or was cut by a *)
(* restart half-way, or two requests overlapped, none of which lasts longer  *)
(* than the next undisturbed OK (modbus_store_reg, config_save).             *)
StoreKeepsPromises ==
    damaged \/ (\E c \in Contexts : HalfDone(c)) \/ (pages = promised /\ check = promised)

(* However saves are interrupted, by a power loss, an error or another save, *)
(* a load yields the defaults or one configuration that was saved as such,   *)
(* never a mixture of two (config_load's check-sum).                         *)
LoadsAreWhole == Loadable \in {Defaults, promised} \union attempts

(* Every request is answered, also when the EEPROM never gets ready: the     *)
(* waits in config_save and in the page transfers are bounded.               *)
EveryRequestAnswered == \A c \in Contexts : Busy(c) ~> ~Busy(c)
=============================================================================
