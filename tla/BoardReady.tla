----------------------------- MODULE BoardReady -----------------------------
(* The constructor of a transceiver: check the BMP, power the machine off if  *)
(* asked to, look for SCAMP, boot the board while nothing answers, power the  *)
(* machine on and look again, verify the version that was found and settle    *)
(* the connections (transceiver/base_transceiver.py).                         *)
(* The board is the environment: a boot may be lost, an answer may be late,   *)
(* and a booted SCAMP answers from the default destination (255, 255) until   *)
(* it has learned its own coordinates.                                        *)
EXTENDS Integers

CONSTANTS
    FirstTries,    \* INITIAL_FIND_SCAMP_RETRIES_COUNT
    Retries,       \* n_retries of _ensure_board_is_ready
    Connections,   \* the SCAMP connections the constructor was given
    Required,      \* _SCAMP_VERSION
    BootImage,     \* the version a boot brings up
    Installed,     \* the versions a board may be running already
    NoVersion      \* None, for version_info

ASSUME TriesAssumption == FirstTries \in Nat /\ Retries \in Nat
ASSUME VersionAssumption ==
    /\ Required \in Nat \X Nat \X Nat
    /\ BootImage \in Nat \X Nat \X Nat
    /\ Installed \subseteq Nat \X Nat \X Nat
    /\ NoVersion \notin Nat \X Nat \X Nat

VARIABLES
    setup,         \* what the constructor is given, and what it meets
    power,         \* is the board powered?
    scamp,         \* "none", "starting" (no coordinates yet) or "up"
    firmware,      \* the version of the SCAMP that runs, if one does
    machine_off,   \* _machine_off
    pc,            \* where the constructor is
    search,        \* which of the two searches for SCAMP it is in
    tries,         \* current_tries_to_go
    version_info,  \* the version the search has found
    unsettled,     \* SCAMP connections whose timeout is not set yet
    udp            \* _udp_scamp_connections, by connection

program == <<machine_off, pc, search, tries, version_info, unsettled, udp>>
board == <<power, scamp, firmware>>
vars == <<setup, board, program>>

Versions == {BootImage} \cup Installed

(* bmp: no BMP connection, a BMP that this transceiver supports, or another;   *)
(* boot: is there a boot connection; cycle: the power_cycle argument; faulty:  *)
(* may calls fail and boots be lost, or does everything that can answer do so. *)
Setups == [bmp : {"none", "good", "bad"}, boot : BOOLEAN, cycle : BOOLEAN,
           faulty : BOOLEAN]

TypeOK ==
    /\ setup \in Setups
    /\ power \in {"on", "off"}
    /\ scamp \in {"none", "starting", "up"}
    /\ firmware \in Versions
    /\ machine_off \in BOOLEAN
    /\ pc \in {"bmp", "cycle", "ensure", "ask", "pause", "boot", "found", "settle",
               "ready", "raised"}
    /\ search \in {"first", "second"}
    /\ tries \in Nat
    /\ version_info \in Versions \cup {NoVersion}
    /\ unsettled \subseteq Connections
    /\ udp \subseteq Connections

Init ==
    /\ setup \in Setups
    /\ power \in {"on", "off"}
    /\ scamp \in IF power = "on" THEN {"none", "starting", "up"} ELSE {"none"}
    /\ firmware \in Installed
    /\ machine_off = FALSE
    /\ pc = "bmp"
    /\ search = "first"
    /\ tries = 0
    /\ version_info = NoVersion
    /\ unsettled = Connections
    /\ udp = {}

-----------------------------------------------------------------------------
(* The machine and its power.                                                  *)

Raise == pc' = "raised"

\* __check_bmp_connection: a BMP must answer, with a version that is supported
CheckBMP ==
    /\ pc = "bmp"
    /\ \/ setup.bmp # "bad" /\ pc' = "cycle"
       \/ setup.bmp = "bad" /\ Raise
       \/ setup.bmp # "none" /\ setup.faulty /\ Raise
    /\ UNCHANGED <<setup, board, machine_off, search, tries, version_info,
                   unsettled, udp>>

\* a powered board that is switched off loses SCAMP; one that is switched on is
\* left alone if it was on, or starts again without SCAMP
Switch(to) ==
    /\ power' = to
    /\ scamp' \in IF to = "on" /\ power = "on" THEN {"none", scamp} ELSE {"none"}

\* _power: the state of the machine is recorded only once the BMP has answered,
\* and a command whose answer is lost may have been carried out
Power(to, done) ==
    \/ /\ Switch(to)
       /\ machine_off' = (to = "off")
       /\ done
    \/ /\ setup.faulty
       /\ Switch(to) \/ UNCHANGED <<power, scamp>>
       /\ Raise
       /\ UNCHANGED <<machine_off, search, tries>>

\* _power_off_machine, when power_cycle is asked for
PowerCycle ==
    /\ pc = "cycle"
    /\ \/ /\ ~setup.cycle
          /\ pc' = "ensure"
          /\ UNCHANGED <<power, scamp, machine_off, search, tries>>
       \/ /\ setup.cycle /\ setup.bmp = "none"
          /\ Raise
          /\ UNCHANGED <<power, scamp, machine_off, search, tries>>
       \/ /\ setup.cycle /\ setup.bmp # "none"
          /\ Power("off", pc' = "ensure" /\ UNCHANGED <<search, tries>>)
    /\ UNCHANGED <<setup, firmware, version_info, unsettled, udp>>

\* Mutant of EnsureReady: search even if the machine is known to be off.
EnsureReadySearches ==
    /\ pc = "ensure"
    /\ pc' = "ask"
    /\ tries' = FirstTries
    /\ UNCHANGED <<setup, board, machine_off, search, version_info,
                   unsettled, udp>>

\* the start of _ensure_board_is_ready: no search of a machine known to be off
EnsureReady ==
    /\ pc = "ensure"
    /\ pc' = IF machine_off THEN "found" ELSE "ask"
    /\ tries' = IF machine_off THEN 0 ELSE FirstTries
    /\ UNCHANGED <<setup, board, machine_off, search, version_info,
                   unsettled, udp>>

-----------------------------------------------------------------------------
(* _try_to_find_scamp_and_boot                                                 *)

\* what _get_scamp_version can bring: a version from the chip's own coordinates,
\* an answer from the default destination, or no answer
Answers ==
    CASE scamp = "up"       -> {"version"}
      [] scamp = "starting" -> {"default"}
      [] OTHER              -> {"timeout"}
Replies == Answers \cup (IF setup.faulty THEN {"timeout", "io", "other"} ELSE {})

\* Mutant of AskVersion: the answer from the default destination will do.
AskVersionAnywhere ==
    /\ pc = "ask" /\ tries > 0
    /\ \E reply \in Replies :
        /\ version_info' = IF reply \in {"version", "default"} THEN firmware
                                                             ELSE NoVersion
        /\ pc' = CASE reply \in {"version", "default"} -> "found"
                   [] reply = "timeout" -> "boot"
                   [] OTHER             -> "raised"
    /\ UNCHANGED <<setup, board, machine_off, search, tries, unsettled, udp>>

\* one turn of the loop while there are tries to go
AskVersion ==
    /\ pc = "ask" /\ tries > 0
    /\ \E reply \in Replies :
        /\ version_info' = IF reply = "version" THEN firmware ELSE NoVersion
        /\ pc' = CASE reply = "version" -> "found"
                   [] reply = "default" -> "pause"
                   [] reply = "timeout" -> "boot"
                   [] OTHER             -> "raised"
    /\ UNCHANGED <<setup, board, machine_off, search, tries, unsettled, udp>>

\* Mutant of Pause: an answer from the default destination uses up a try.
PauseCostsTry ==
    /\ pc = "pause"
    /\ pc' = "ask"
    /\ tries' = tries - 1
    /\ UNCHANGED <<setup, board, machine_off, search, version_info,
                   unsettled, udp>>

\* the sleep after an answer from the default destination: no try is used up
Pause ==
    /\ pc = "pause"
    /\ pc' = "ask"
    /\ UNCHANGED <<setup, board, machine_off, search, tries, version_info,
                   unsettled, udp>>

\* the boot messages reach a powered board without SCAMP, unless they are lost
Booted ==
    \/ /\ power = "on" /\ scamp = "none"
       /\ scamp' = "starting"
       /\ firmware' = BootImage
    \/ /\ power = "off" \/ scamp # "none" \/ setup.faulty
       /\ UNCHANGED <<scamp, firmware>>

\* Mutant of BootBoard: the boot uses up no try.
BootForFree ==
    /\ pc = "boot"
    /\ \/ /\ setup.boot
          /\ Booted
          /\ pc' = "ask"
       \/ /\ ~setup.boot
          /\ Raise
          /\ UNCHANGED <<scamp, firmware>>
    /\ UNCHANGED <<setup, power, machine_off, search, tries, version_info,
                   unsettled, udp>>

\* _boot_board after an ask that timed out, and the try it costs
BootBoard ==
    /\ pc = "boot"
    /\ \/ /\ setup.boot
          /\ Booted
          /\ tries' = tries - 1
          /\ pc' = "ask"
       \/ /\ ~setup.boot
          /\ Raise
          /\ UNCHANGED <<scamp, firmware, tries>>
    /\ UNCHANGED <<setup, power, machine_off, search, version_info, unsettled, udp>>

\* no tries left: ask once more, whatever goes wrong is suppressed
AskAgain ==
    /\ pc = "ask" /\ tries = 0
    /\ \E reply \in Replies :
        version_info' = IF reply = "version" THEN firmware ELSE NoVersion
    /\ pc' = "found"
    /\ UNCHANGED <<setup, board, machine_off, search, tries, unsettled, udp>>

-----------------------------------------------------------------------------
(* The rest of _ensure_board_is_ready                                          *)

NextIsPowerOn == version_info = NoVersion /\ setup.bmp # "none" /\ search = "first"

\* nothing was found and there is a BMP: power on and search again
PowerOn ==
    /\ pc = "found" /\ NextIsPowerOn
    /\ Power("on", pc' = "ask" /\ search' = "second" /\ tries' = Retries)
    /\ UNCHANGED <<setup, firmware, version_info, unsettled, udp>>

\* _is_scamp_version_compabible
IsCompatible(version) ==
    /\ version[1] = Required[1]
    /\ IF version[2] = Required[2] THEN version[3] >= Required[3]
                                   ELSE version[2] > Required[2]

Verify ==
    /\ pc = "found" /\ ~NextIsPowerOn
    /\ pc' = IF version_info # NoVersion /\ IsCompatible(version_info)
             THEN "settle" ELSE "raised"
    /\ UNCHANGED <<setup, board, machine_off, search, tries, version_info,
                   unsettled, udp>>

\* set the timeout of a connection, which may raise, and _check_connection it,
\* which gives up silently; the tries of the check are one step here
Settle ==
    /\ pc = "settle"
    /\ \/ \E c \in unsettled, reachable \in {TRUE, ~setup.faulty} :
            /\ unsettled' = unsettled \ {c}
            /\ udp' = IF reachable THEN udp \cup {c} ELSE udp
            /\ UNCHANGED pc
       \/ /\ unsettled # {} /\ setup.faulty
          /\ Raise
          /\ UNCHANGED <<unsettled, udp>>
       \/ /\ unsettled = {}
          /\ pc' = "ready"
          /\ UNCHANGED <<unsettled, udp>>
    /\ UNCHANGED <<setup, board, machine_off, search, tries, version_info>>

\* the board's own step: SCAMP learns its coordinates
LearnCoordinates ==
    /\ scamp = "starting"
    /\ scamp' = "up"
    /\ UNCHANGED <<setup, power, firmware, program>>

Constructor ==
    \/ CheckBMP \/ PowerCycle \/ EnsureReady \/ AskVersion \/ Pause
    \/ BootBoard \/ AskAgain \/ PowerOn \/ Verify \/ Settle

Next == Constructor \/ LearnCoordinates

Spec == Init /\ [][Next]_vars

\* every call of the constructor ends (WorkEnds of SCPPipeline, for one request)
ProgramSpec == Spec /\ WF_vars(Constructor)
\* and a SCAMP that has started learns its coordinates
FairSpec == ProgramSpec /\ WF_vars(LearnCoordinates)

-----------------------------------------------------------------------------
(* Properties                                                                  *)

\* at least the required version, and of the same major version
AtLeastRequired(version) ==
    /\ version[1] = Required[1]
    /\ \/ version[2] > Required[2]
       \/ version[2] = Required[2] /\ version[3] >= Required[3]

\* A transceiver is handed out only with a powered board on which SCAMP runs in
\* a version that is recent enough and knows its coordinates, whatever power and
\* boot commands were sent after each answer (_ensure_board_is_ready).
ReadyIsUp ==
    pc = "ready" => power = "on" /\ scamp = "up" /\ AtLeastRequired(firmware)

\* No boot messages are sent to a machine that the transceiver has powered off
\* and not powered on again (_machine_off and the two searches).
SendsBoot == pc = "boot" /\ pc' = "ask"
NoBootWhileOff == [][SendsBoot => ~machine_off]_vars

\* The constructor returns or raises (the loop of _try_to_find_scamp_and_boot
\* and the two searches with the power commands between them).
Ended == pc \in {"ready", "raised"}
ConstructorEnds == <>Ended

\* With a board that can be reached, booted and trusted and no call that fails,
\* the constructor hands out a transceiver: the tries are never used up while the
\* board is on its way (the answers from the default destination cost no try).
Healthy ==
    /\ ~setup.faulty /\ setup.boot /\ setup.bmp # "bad"
    /\ setup.cycle => setup.bmp = "good"
    /\ power = "on" \/ setup.bmp = "good"
    /\ scamp = "none" \/ setup.cycle \/ AtLeastRequired(firmware)
HealthyBecomesReady == (pc = "bmp" /\ Healthy) ~> (pc = "ready")
=============================================================================
