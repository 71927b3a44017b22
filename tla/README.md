# Device settings HAL: a verification project

This directory models the hardware abstraction layer in `src/` (the Amlogic
implementation of RDK's device settings) in TLA+, checks the models with TLC and
proves the main results about six of its components with TLAPS.

1. [The system](#1-the-system)
2. [Modules](#2-modules)
3. [Runs](#3-runs)
4. [Fairness](#4-fairness)
5. [Proofs](#5-proofs)
6. [What the runs found](#6-what-the-runs-found)
7. [What is not modelled](#7-what-is-not-modelled)
8. [Plan](#8-plan)

## 1. The system

The HAL is a C library loaded into one process. The layer above calls its `ds...`
functions from any thread. The library starts threads of its own, and is called back
by the TV client library, which has a thread for its events. Nothing is
persisted. Below the library are DRM and udev (displays), the TV client
(inputs), the audio HAL (`audio_hw_load_interface`), westeros (a console that is
run with `popen`) and files of sysfs.

| component (source) | state | operations | threads |
|---|---|---|---|
| input selection (`dsInputSelect.c`) | `selectedSource`, `isPresenting`, `hdmiInStatus`, `compositeInStatus`, `tvclient`, four callbacks; mutexes `inputSelectMutex`, `inputPortMutex` | Init, Term, SelectPort, GetStatus, Register of HDMI and composite | callers; one detached `input_switching_thread` for each request; the TV client's thread in `TvEventCallback` |
| video port (`dsVideoPort.c`) | `drmInitialized`, `drmRefreshAlive`, `drm_refresh_threadId`, `connector_id`, `hdcpStatusCallback`, `_handles[].IsEnabled`; `initLock` with `initCond`, `lock` | Init, Term, GetVideoPort, EnableVideoPort, GetHDCPStatus, RegisterHdcpStatusCallback, resolutions | callers; `drm_refresh_thread`; detached `process_hdcp_dolbyVisonEnable` |
| hotplug (`dsDisplay.c`) | `isMonitoringAlive`, `ds_hpd_threadId`, `_halcallback` | Init, Term, Register, GetEDID | callers; `ds_hotplug_thread` |
| audio (`dsAudio.c`) | the table of handles, some twenty static variables that remember what was set | Init, Term, a setter and a getter for each parameter | callers only, no lock |
| DRM conversions (`dsDrmUtils.c`, `dsVideoResolutionSettings.h`) | none (`kResolutions` is a table) | modes, names and table entries to each other | callers |
| EDID parser and getters (`edid-parser.c`, `dsDisplay.c`, `dsVideoPort.c`) | none; each call fills a structure of its own from several reads of the device | GetEDID, GetEDIDBytes, GetTVHDRCapabilities, GetCurrentOutputSettings, GetMatrixCoefficients | callers, no lock |
| frame rate (`dsVideoDevice.c`) | none, the console keeps the mode | SetDisplayframerate, GetCurrentDisplayframerate | callers, no lock |
| rest of the video device, host, front panel, configuration, sysfs utilities | a file descriptor; a list read once | reads and writes of files | callers |

How they interact: `ds_hotplug_thread` calls `dsGetVideoPort` and
`dsIsDisplayConnected` of the video port and tells the audio HAL; everything that needs a DRM
connector goes through `CHECK_DRM_INITIALIZE`, which waits up to a second for
`dsVideoPortInit`; the lists of resolutions of the display use the conversions.

What is hard, and what makes each component correct:

* **Input selection.** There is one TV path: an old input must be stopped before a
  new one is started, although requests, cables and signals arrive on three kinds of
  threads, and although StartTv may fail half-way. What the status blocks report
  must follow. Every request must be carried out.
* **Video port.** Initialise and terminate must be repeatable, one monitor
  thread at a time; no callback after Term; no call waits for ever; a client
  told that HDCP succeeded must be told when it is lost.
* **Hotplug.** Events alternate, the last one told is the state of the cable, the
  audio HAL agrees, and Term ends in silence.
* **Audio.** A getter answers from a variable, not from the device: the
  two must agree whatever fails. Parameters that share one device setting (volume
  leveller and Loudness Equivalence; HDMI and SPDIF encoding) must stay consistent. Interfaces
  loaded must be unloaded.
* **Resolution.** A resolution is translated five times on its way (table, console
  command, DRM mode, name, bit set): what is listed must be offered, what is set
  must be shown, what is named must be what is shown.
* **What is known of the display.** The EDID comes from the display, its blocks stand in any
  order, and the parser steps over them by lengths it reads in them. A getter reads the
  connector, the EDID, what the kernel made of it and the output one after the other, while displays
  are swapped: an answer must be that of one display, and what that display
  declares.

`PROJECT.json` lists 40 hazards of this kind, each at its line, with the properties that
cover it.

## 2. Modules

| module | models | composition |
|---|---|---|
| `TvSelector` | what selecting an input promises, on two variables | abstract specification |
| `InputSelect` | `dsInputSelect.c` | implements `TvSelector` (`ImplementsSelector`) |
| `PortReadiness` | what `CHECK_DRM_INITIALIZE` sees of the video port: `drmInitialized`, and whether an initialisation holds `initLock` | abstract specification |
| `VideoPort` | the thread and lock part of `dsVideoPort.c` | implements `PortReadiness` (`ImplementsReadiness`) |
| `DisplayHotplug` | `dsDisplay.c` without the EDID | composed with `PortReadiness` |
| `AudioParams` | the setters of `dsAudio.c` and their static variables | |
| `Resolution` | resolutions, in `dsVideoPort.c`, `dsDisplay.c` and `dsDrmUtils.c`, and the frame rate of `dsVideoDevice.c` | |
| `EdidParser` | `edid-parser.c`, as operators on bytes | |
| `EdidDisplay` | displays, what they declare and the bytes in which they do | the environment of `EdidParser` |
| `SinkInfo` | the getters of `dsDisplay.c` and `dsVideoPort.c` that read the display or the output | extends `EdidParser` and `EdidDisplay` |
| `InputSelectProofs`, `DisplayHotplugProofs`, `VideoPortProofs`, `ResolutionProofs`, `AudioParamsProofs` | theorems | extend the module they name |
| `EdidParserProofs` | theorems on the parser, for any bytes, and on the bytes of a display | extends `EdidParser` and `EdidDisplay` |
| `SinkInfoProofs` | theorems on what the parser makes of a display and on the getters | extends `SinkInfo` and `EdidParserProofs` |
| `VideoPortClientProofs` | theorems on what the client of the video port sees | extends `VideoPortProofs` |
| `MC_*` | client profiles, displays and symmetry for the runs | extend the module they name |

A step of a model is what one thread does between two points at which another
thread can interfere: a critical section under one mutex is one step unless it calls out
(StopTv, StartTv, a callback) or another thread reads the same variable without that
mutex. Each thread has a program counter `pc[t]`; its labels are named for what the
thread does next. A mutex is the thread that holds it, or `Nobody`. Clients are a
set `Calls` of calls they may make in any order from any caller, so a run chooses a client by
choosing that set.

**InputSelect.** `SelectPort` hands the request to a new switching thread, whose
steps are `SwitchLock` (380-398), `SwitchStop`, `SwitchStopped`, `SwitchStart`,
`SwitchAssign`, `SwitchUnlock`; the stop and the bookkeeping after it are separate,
because `dsHdmiInTerm` works without `inputPortMutex`. `Tv...` are the parts of
`TvEventCallback`. Init and Term are split at each access that is not protected. HDMI
and composite inputs run the same code twice in the source (627-715 and 869-960, 718-725 and
963-970, 757-804 and 978-992), so an action takes the kind as a parameter; the one
difference, that composite cables are not detected, is in `Detected`. A status block
has a contents and a state of its memory (`null`, `live`, `freed`); every use of a
block that is not live, those of Init included, is recorded in `badUse`. `malloc` gives any contents.
`started` is the TV client: the set of inputs that are on.

**VideoPort.** `CHECK_DRM_INITIALIZE` is `CheckFlag`, `CheckLock`, `CheckWake`,
followed by the label in `next`. A failing `openDefaultDRMDevice` in `InitLock`
returns with `initLock` held, as the code does. `joining` is the thread id that
`pthread_join` was given. The boot-time notifier polls `PollLimit` rounds instead of 3000. `hdcp` is what the file
of the driver says, a version and an outcome, and `Status` what `dsGetHDCPStatus` makes of it: a
failure of version 2.2 counts as authenticated (1160-1163). `MoveCable` and
`Negotiate` change it; the second may raise an event or not. Three threads tell a status: the
monitor, the notifier, and the caller of `dsRegisterHdcpStatusCallback`, which may run while the
port is on, each by `GetHandle`, `ReadStatus`, `TestCallback`, `Invoke`. `told` is
the client's last news of HDCP, `badCall` records a call through NULL. `EnableDisplay` has three
outcomes: an answer, a refusal (or no console), and no line of response, which is a success with the flag
unchanged (699-711). `ImplementsReadiness`
maps `initLock` to `busy`, which is true while a thread inside the body of
`dsVideoPortInit` holds it. The other threads hold the lock for a moment only, which is not seen.

**DisplayHotplug.** One action for each statement of the loop that touches shared
state. `pending` is the queue of the udev monitor, which exists from the moment the
thread listens. `audio` is what the audio HAL believes. The thread asks `dsGetVideoPort`
for a handle with the first event, and so runs `CHECK_DRM_INITIALIZE`: `Change` tests
`drmInitialized`, `Wait` takes `initLock`, `Wake` ends the wait, `GetHandle` is what follows.
The video port it runs against is `PortReadiness`, stepped by `PortBegins`, `PortPublishes` and
`PortClears` at any time: that `VideoPort` has no other behaviour is checked by
`port_cycle` and proved.

**AudioParams.** A setter is a record: the ports and the values it accepts and the
variable it writes. `Load`, `Check`, `SetParameters`, `Store`, `Unload` are the five
stages that all setters share, and where they differ (which of them return early,
what is sent, what is stored) the difference is a set or a case of its own. `device`
is what the audio HAL was last told for each parameter. `dsSetAudioEncoding` writes its two
files in two steps, `DigitalRawSet` and `DigitalCodecSet`; each may be refused, the second is done even if
the first was, and two calls may interleave.

**Resolution.** A mode is a size, a scan and a rate; each conversion of the code is an
operator on modes (`SupportedModes`, `Recognised`, `ModeInfo`, `NameOf`, `TvBits`,
`InTable`) and loses exactly what the code loses. The display may be swapped and the
mode on screen may change between any two steps of a call. The frame-rate functions of
`dsVideoDevice.c` set and read the same screen by another console command. A console answers, prints no
line of response, or does not start (`Replies`); DRM may not open (`OpenFails`), which ends some
calls with an error and `dsGetEDID` with a read through NULL (`Crash`). The
bits of `dsSupportedTvResolutions` are added to those of the caller's variable (`Own`).

**EdidParser, EdidDisplay, SinkInfo.** `EDID_Parse` is an operator on a function from
offsets to bytes, one operator for each function of the source. A loop is a recursive function on its
turns: `BlockLoop` walks over the data blocks, `TimingLoop` over the timings after them and
`parse_extension_blocks` over the extensions; the four descriptors of the base block are written
out. `BlockLoop` counts a turn for each byte between the blocks and the timings, and a turn past the end
changes nothing (`WalkEnds` of section 5 shows that the count cuts nothing off). A video code is an
index into the table `vic`, whose rows from line 163 on are not those of their codes: `VicFormat` gives the
code whose format a row holds, and a native timing is that format. `EdidDisplay`
gives each byte of an EDID from the side of the display, after the standards and
not after the parser, and says what is declared, so a property can compare the
two. Displays satisfy `DisplayOK`, the assumption of `SinkInfo`. `SinkInfo` has one action for each read: `GetConnector`, `GetBlob` (by the identifier read
before, which is gone when the display is), `AnswerEDID`, which asks the kernel again by a command that
may not start, `ReadColor` and `ReadEotf`, of files that may not be readable. `NoConnector` is the NULL of
`dsDRMGetHDMIConnector`, which `dsGetEDID` reads through. `malloc` gives `dsGetTVHDRCapabilities` any capabilities (`Garbage`).

Operators whose comment begins with "Mutant of" are not part of a specification: each is
the definition named with one plausible mistake in it, kept to show that some property
notices that mistake.

## 3. Runs

| run | size | question |
|---|---|---|
| `input_select` | 1 HDMI, 1 composite, 1 caller, 2 switching threads, 5 calls, 2 events; StartTv fails | is the TV path exclusive, is the selection right, is memory allocated when used, is it a `TvSelector` |
| `input_live` | 1 HDMI, 2 callers, 3 calls, 1 event; Term allowed, everything fails | does every request, call and event come to an end |
| `port_cycle` | 2 callers, 2 monitors, 5 calls, 2 Inits, 2 events | do Init and Term clean up, is the news of HDCP true, is it a `PortReadiness` |
| `port_live` | 2 callers, 1 monitor, 3 calls, 2 events; the monitor may fail to open DRM | does every call return, is a lost HDCP told |
| `port_boot` | 2 callers, 1 monitor, 1 notifier, 3 calls, 2 events; the monitor may not start, the compositor refuses or does not answer | are flag and display in agreement, is the news of HDCP true with the notifier beside the monitor |
| `hotplug` | 2 Inits, 3 cable moves, 1 Init of the video port; thread, udev and audio fail | are events right, does Term end |
| `audio` | 2 callers, 3 calls over all setters; any refusal of the device or of a file, load and init_check fail | do getters answer what the device has, do the encoding files agree, is everything unloaded |
| `resolution` | 3 displays, 2 callers, 2 calls, 3 changes; every kind of console, DRM fails | are set, name and lists true |
| `sink` | 452 displays, 6 outputs, 1 call of each getter, 1 change of cable or output | do the getters say what display and output declare |
| `port_leak`, `port_outlive`, `hotplug_firstpull` | smallest that shows it | the divergences of section 6 |

*Why the bounds are enough.* The interesting cases need two requests in flight (two switching
threads), an input of each kind, an event while both are in flight, and a third request to see
what the second left behind: 5 calls are an Init for each kind and three more. Two life cycles
of a port need Init, Term, Init and Term, and a fifth call beside them. Three cable moves are
in, out and in again. Audio parameters interact in pairs; the third call sees the effect of
two. Two calls are enough for `resolution`: what a call can meet is another call that sets a
mode, and the changes of display and mode, of which there are three. Of HDCP the
runs have one mode for each status with and without a cable: none, success of version 1.4, failure of
version 2.2. Values are few: `0`, values in range and, for the leveller and the DRC mode, one out of
range. The getters of `sink` share no state, so one call is enough, and the change falls
between any two of its reads. Its displays have up to three of seven kinds of data blocks in
every order, Dolby Vision of every version with right and wrong lengths, names of every length
that matters in every descriptor, video codes inside and beyond the table, and up to two
extensions with and without a map. The proofs of section 5 remove the bounds for all but
liveness.

*What the clients may do.* `input_select` initialises both kinds once, first (`Discipline`),
and never terminates, because Term frees a block that other threads use (section 6);
`input_live` allows everything. `port_cycle` has one thread that initialises, terminates and
registers at a time (`Conflicts`); it may register a callback while the port is on, and clears it only while the
port is off (`Tidy`: a NULL between the test of the pointer and the call is a call of NULL,
by lines 188 and 787). It runs without the notifier, whose effect is `port_outlive`, and
which `port_boot` has beside monitor and registrations for one life of the port. In `hotplug` an initialisation of
the video port that begins also ends. `audio` does not overlap two calls that write the same
static variables, and switches ports on and off alone; calls of `dsSetAudioEncoding` do overlap. The deadlock check is off only in
`port_cycle` and `port_leak`: a failed Init leaves `initLock` locked, and then the process
really stops.

*History variables.* `ready`, `told`, `pulled`, `repeated`, `sinks`, `plugged` and `outputs` of
`SinkInfo`, `leaked`, `misuse`, `refused`, `badUse`, `badCall` record the past for the
properties and are read by no guard of the program, and so does `seen` in `Resolution` (in
`VideoPort` `seen` is what a thread has read); `calls`, `raised`, `inits`, `moves` are bounds.
`ready` guards the client only. Six of them name the cases in which a property does not hold of the
code, so that it is checked in all others:

| variable | what it records | property |
|---|---|---|
| `unheard` | HDCP was lost and no monitor has had an event since: none was raised, or no monitor was listening | `ToldAuthenticatedIsCurrent`, `LossIsTold` |
| `overtaken` | the last status was told outside the monitor and was no longer true then: read before HDCP was lost, told after it | the same |
| `unanswered` | the compositor printed no line for the last `dsEnableVideoPort` | `EnabledIsDisplayed` |
| `silent` | it printed no line for this `dsSetResolution` | `SetIsShown` |
| `torn` | a write of an encoding file was refused or fell between those of another call, and no call has written both alone since | `EncodingAgrees` |
| `unread` | the file of the HDR mode could not be read in this call | `OutputIsReported` |

## 4. Fairness

Weak fairness of each thread of the process, as an action: a thread that can go on does.
That is what the scheduler gives. A mutex is modelled without a queue: a thread that waits for
it is enabled whenever it is free, and weak fairness is enough because the number of
competitors is bounded, so that the mutex is in the end free for good. `select` has a
time-out of 15 s and `pthread_cond_timedwait` one of 1 s, so both steps are always
enabled in the end. In `DisplayHotplug` an initialisation of the video
port that has begun also ends (`PortPublishes`), as `port_live` shows of `VideoPort` when DRM can be
opened; when it cannot, `port_leak` shows what follows. Nothing is assumed of the client, of cables,
or of the events: they may stop at any time.

## 5. Proofs

The proofs hold for all values of the constants: any number of inputs, threads, displays, calls and
events, any client and any set of failing calls, except where an assumption is named.

| module | theorem | statement | assumes |
|---|---|---|---|
| `InputSelectProofs` | `TypeCorrect` | `Spec => []TypeOK` | |
| | `OneSourceAtATime` | `Spec => []OneSourceStarted` | `NeverTerminated`, `StopReliable` |
| | `SelectedIsRunning` | `Spec => []RunningIsSelected` | the same |
| | `SelectorImplemented` | `Spec => ImplementsSelector` | the same |
| | `BlocksAllocated` | `Spec => []StatusBlocksAllocated` | `NeverTerminated`, `Disciplined`, `InitsWhatItUses` |
| | `SelectedIsActive` | `Spec => []ActivePortIsSelected` | the same |
| `DisplayHotplugProofs` | `HotplugTypes` | `Spec => []TypeOK` | |
| | `SilentWhenOff` | `Spec => []TermIsSilent` | |
| | `NeverTwice` | `Spec => []EventsAlternate` | |
| | `LastEventIsCable` | `Spec => []ToldIsPlugged` | |
| | `AudioFollows` | `Spec => []AudioIsTold` | |
| `VideoPortProofs` | `PortTypes` | `Spec => []TypeOK` | |
| | `PortImplementsReadiness` | `Spec => ImplementsReadiness` | |
| | `OneThreadListens` | `Spec => []OneRefreshThread` | `SwitchedAlone` |
| | `QuietAfterTerm` | `Spec => SilentAfterTerm` | `ManagedAlone` |
| | `NeverCallsNull` | `Spec => []NoNullCall` | `ManagedAlone` |
| `VideoPortClientProofs` | `LastToldIsCurrent` | `Spec => []ToldAuthenticatedIsCurrent` | `ManagedAlone` |
| | `AnswerIsDisplayed` | `Spec => []EnabledIsDisplayed` | `InitialisedOnce` |
| | `TermWaitsForTheWilling` | `Spec => []JoinIsServed` | `NoLeak` |
| `ResolutionProofs` | `ModeTypes` | `Spec => []TypeOK` | |
| | `SuccessIsShown` | `Spec => []SetIsShown` | |
| | `NamedWasShown` | `Spec => []NamedIsShown` | `HdmiEncoder = 1`, `InterlacedRates` |
| | `ListIsThatOfTheDisplay` | `Spec => []ListIsOffered` | |
| | `TvSizesAreThoseOfTheDisplay` | `Spec => []TvMatchesSink` | `RatesOfTheirSize` |
| `AudioParamsProofs` | `AudioTypes` | `Spec => []TypeOK` | |
| | `Released` | `Spec => []InterfacesReleased` | |
| | `LevellerFollows` | `Spec => []LevellerIsApplied` | |
| | `FilesAgree` | `Spec => []EncodingAgrees` | |
| | `ReportsFollow` | `Spec => []ReportedIsApplied` | `NoHdmiDelay` |
| `EdidParserProofs` | `WalkEnds` | the loop over the data blocks has ended when its turns are over | the bytes are bytes |
| | `AnyEdidFits` | what `EDID_Parse` leaves is an `edid_data_t` | the same |
| `SinkInfoProofs` | `SettingsAreOfTheOutput` | `Spec => []OutputIsReported` | |
| | `AnswersAreOfOneDisplay` | `Spec => []OneDisplayIsRead` | |
| | `DisplayParsed` | `EDID_Parse` finds what a display declares | `DisplayOK` |
| | `TvHdrIsThatOfTheDisplay` | `Spec => []TvHdrIsDeclared` | `DisplayOK` of each display |
| | `EdidNamesOneDisplay` | `Spec => []EdidIsOfADisplay` | the same |
| | `NativeIsThatOfTheDisplay` | `Spec => []NativeIsDeclared` | the same |
| | `SinkTypes` | `Spec => []TypeOK` | the same |

**Input selection.** `TypeOK` is not inductive: a status block of one kind never gets an input
of the other only because a call's argument is of the type its operation says. `TypeInv` adds
that (`CallInv`). Exclusion, selection and the refinement rest on `SelectorInv == TypeInv /\
PortInv /\ PathInv`. `PortInv` says that `inputPortMutex` is held by exactly the thread that is
in a critical section; `PathInv` says where `started` and `selectedSource` may differ: only
while the holder is between a stop or a start and its bookkeeping. Neither is visible in
`OneSourceStarted` and without them that invariant is not inductive: a thread at `start` could
find another input running. `StatusBlocksAllocated` and `ActivePortIsSelected` add the
discipline of the client: nothing is selected, read or registered before every kind is
initialised (`UseInv`), once for each kind (`OnceInv`), and a block that is ready is there and
in step with the selection (`BlockInv`). Assumptions: `NeverTerminated`, the client does not
call Term (`dsHdmiInTerm` clears the selection without `inputPortMutex`; the exclusion is then
false, not unproved); `StopReliable`, StopTv does not fail (403, 430: then two inputs are on);
`Disciplined`, each kind is initialised once and first; `InitsWhatItUses`, the client has a
call of Init for each kind it reads or registers with.

**Hotplug.** `HotplugInv == TypeInv /\ ThreadInv /\ ToldInv /\ CableInv /\ AudioInv`. There is
one thread, the one that `dsDisplayTerm` joins; what that thread remembers in `wasConnected` is
what it has told or is about to tell; when it has no event left, what it remembers is the
cable; the audio HAL was told before the client. Each part uses the ones before. No assumption
is needed: the composition with `PortReadiness` may clear the port at any time.

**Video port.** `ReadyInv` says that whoever is in the body of `dsVideoPortInit` holds
`initLock` and that `initLock` is held only while the port is not ready; with it every step is
one of `PortReadiness` or a stutter, whatever the client overlaps. `AliveInv` says that a
monitor that is alive is the one `drm_refresh_threadId` names and that the port is on, or on
its way; `CallbackInv` that a monitor at the call has a callback. Assumptions: `SwitchedAlone`,
Init and Term are not overlapped with one another; `ManagedAlone`, neither are they with a
registration, the callback is cleared only while the port is off, and there is no boot-time
notifier, with which `SilentAfterTerm` is false (`port_outlive`).

What the client sees of the port has invariants of its own. For `LastToldIsCurrent`, `ToldInv`: the
port is on with a monitor that goes on, except inside Term (`SwitchInv`); what was told before an
Init is forgotten and nothing is told until the port is on (`FreshInv`); and while the port is on
and HDCP lost a client told AUTHENTICATED is owed the news, by an event in the monitor's
queue, by a monitor about to read the status, or by one about to tell the failure it has read
(`NewsInv`), unless the loss is `unheard` or the news `overtaken`. When all has settled nobody owes anything.
Registrations run while the port is on and tell a status from their own thread; `NewsInv` covers them. For `AnswerIsDisplayed`, `EnableInv`:
`IsEnabled` is the state of the display except between the answer of the compositor and the store
of the one call under way. `InitialisedOnce`: a second Init would set `IsEnabled` whatever the
display does (546), and two calls of `dsEnableVideoPort` may store in the other order than they
were carried out. `unanswered` is the case of no answer. For `TermWaitsForTheWilling`, `JoinInv`: `initLock` is held over several
steps only by a thread in the body of Init, and in Term the monitor has been told to stop. With `NoLeak` (DRM opens, Init and Term are not overlapped) nobody holds the lock while Term
joins. It is the state part of `CallsReturn`: the join cannot be part of a circle of waits.

**Resolution.** `ModeInv` says that what is on the screen now is among what was seen since the
call began. For the lists, `ListsOne` says that each is the conversion of one display that was plugged during
the call, so that for a display that stayed the rest is a lemma on the tables (`ExactTables`,
`ToldByShape`).
`SuccessIsShown` has no assumption: where the console prints nothing `dsSetResolution` succeeds with nothing set
(1065-1075), and the property names that case (`silent`). Assumptions of the others:
with the HDMI encoder behind another, `dsGetResolution` names nothing (`dsDrmUtils.c:258`); a
mode 1080i at a rate other than 50 or 60 Hz is given another name; and the names of the driver
give each size the rates it has (`RatesOfTheirSize`: a mode 480i50 would be told by no bit).

**Audio.** `ParamInv` says that a call runs the code of its operation, that two calls under way
write different variables (`Apart`), and that an interface is loaded in the middle of a setter
only. For each getter an invariant says that between the answer of the device and the store the
device already has what will be stored (`FollowOf`, `FormatInv`, `DelayInv`, `LevellerInv`),
and that otherwise variable and device agree. `NoHdmiDelay`: the two delays share one variable,
and a delay of HDMI goes to neither of the parameters that `ReportedIsApplied` compares. For the
two encoding files `FilesInv` says that while nothing is `torn` one call at most is between its two writes, and
that the raw mode is its own then; `FilesAgree` follows without an assumption.

**Output settings.** `ReadsInv` says that the output is always among those seen since the call
began, that no other code answers a call of `dsGetCurrentOutputSettings`, and that each of the
two parts of its answer was read from an output that was seen. With one output seen both parts
are its own. Nothing is assumed of the displays, the outputs or what other calls do.

**The EDID as it is read.** `ParseInv` follows a call through its reads of connector, blob and
kernel: the display of now is among those plugged since the call began, the identifier held is
that of one of them, and `edid_data_t`, once read, is what the parser makes of one of them. Only
when the cable moved between connector and blob is it what it was before, zero or what `malloc`
returned (1375). So no answer mixes two displays, for any displays and whatever the parser does
(`AnswersAreOfOneDisplay`, without assumptions). What the answer says of that display is a
statement about `EDID_Parse` alone, with no calls and no cable: `DisplayParsed`, from which the
four theorems after it follow.

**The EDID as it is parsed.** The parser is proved about in three steps, none of which looks at a
particular display.

*Loops.* The number of turns depends on the bytes, and the library's induction cannot be used (it
takes an operator as a parameter). `Least` gets a least number in a set from the minimal elements
of a well-founded relation; `EveryTurn` is induction over the turns, for a *set* of turns;
`LoopRuns` gives the states of a loop as a function (`Runs`). With these, each of the
loops has one lemma on what a turn keeps. `WalkEnds`: whatever the lengths in the
bytes, `BlockLoop` ends at the first timing or past it by less than a block. `AnyEdidFits`: for
any bytes, any count and any contents of the structure before, each field holds
a value of its type afterwards (a name then has up to 14 characters).

*What a walk finds* (`LoopSays`, `LoopVideo`, `ExtensionSays`, `ExtensionsSay`,
`ExtensionsNative`). When the offsets of the blocks are known, of several blocks
of a kind the last counts: the last vendor block gives the address, static metadata are erased by
the next ones, and the bit of Dolby Vision depends on the last block of it. The native timing is that
of the first video block that has a row. All of this is stated of bytes, not of displays.

*Where the blocks are.* `ExtensionIsLaid`: in the bytes of a display each block begins where the
one before ends and the first timing stands after the last, so the walk visits the declared
blocks and nothing else. `DisplayOK` has a clause for each step that needs one: room for the blocks
and four timings, one block at most of HDMI, static metadata and Dolby Vision, and at most 30 extensions.
The last one was not foreseen: a name of 13 characters in the last descriptor
ends with it, the loop over the name looks one byte further (74), and that byte is the number of
extensions; from 32 on it is printable and the name gets a 14th character.
`Readable` excludes what the parser refuses (689). `DisplayParsed` states the native timing by the row of the table
(`NativeByRows`), for codes that have one; `NativeIsThatOfTheDisplay` states the format, for displays with codes
in `ListedCodes`, whose rows hold their own format (`ListedRows`): with a code from 15 on it is
false of the code. The
address is claimed only where no block of the HDMI Forum overwrites it (444), and without its third
number (447).

Only model-checked: all liveness (fairness and `ENABLED` are out of the prover's reach), and the
three divergences of section 6, which are counterexamples. Every invariant and every step property
that a passing run checks is a theorem, and so is `TypeOK` of `Resolution`, which no run has. No module uses a `RECURSIVE` operator.

## 6. What the runs found

Three runs end in a counterexample; each is listed with its line under `findings`.

* `port_leak`: `dsVideoPortInit` returns with `initLock` locked when DRM cannot be opened.
* `port_outlive`: the boot-time notifier calls the client back after Term.
* `hotplug_firstpull`: the first unplugging of a display plugged at the start is not told.

Other divergences that the models contain, or that their preconditions exclude, and that
no run of its own shows:

* Input selection: an older request may be carried out last (one detached thread per request,
  499); a failing StopTv does not stop the switch (403, 430); Term frees and
  clears without `inputPortMutex` (677, 681); an unplugged cable of an input that is not
  presented restarts it (254-258); a block keeps `isPresented` of the other kind
  (440-450); Term leaves `isPresenting` true; a new Init resets `activePort` of an input
  that is selected (651-652); a callback that asks for the status waits for itself;
  composite port 1 is taken as a stop request (828).
* Video port: `IsEnabled` is set by every Init, whatever the display does (546); NULL is
  refused but stored as a callback (784-787); the two searches for a connector never end
  without one (386, 572); the unlock of an unlocked mutex (373); a
  registration (790) or the notifier (449) may tell AUTHENTICATED after the monitor has told its loss; a
  failure of HDCP 2.2 is told as AUTHENTICATED (1160-1163); a compositor that prints nothing leaves
  `dsEnableVideoPort` a success and the flag as it was (699-711).
* Hotplug: events are lost while the video port has no handle (479-485); `_halcallback`
  may be cleared between test and call (498, 373); after `port_leak` the hotplug thread waits for
  `initLock` with its first event and `dsDisplayTerm` for the thread.
* Audio: a refused `dsEnableLEConfig` stores false (1278); the boost of the bass enhancer
  is formatted but not sent (1657-1665); one `audioDelay` for all ports; most setters
  use an uninitialised device after a failed load and unload twice after a failed
  init_check; the Atmos mode never unloads, the delays do not on a terminated port; a refused write
  of one of the two encoding files, or two calls at once, leave raw mode and codec apart (1370-1373).
* Resolution: `dsGetResolution` succeeds without a name when the HDMI encoder is not the
  first (`dsDrmUtils.c:258`); `dsSetResolution` succeeds when the console prints no answer
  (1065-1075); `getDRMConnectorModeInfo` maps 1080i of every rate to `drmMode_1080i` (`dsDrmUtils.c:415`) where
  the list of the display has a constant of its own for 1080i50 (163-168), so that a display with
  1080i60 is listed with 1080i50 too and one with 1080i50 alone with no 1080i; the list of modes has
  no test for its end (116); `dsGetEDID` reads through a connector that is NULL (`dsDisplay.c:228`); 2160p30 is reported as 2160p60 too, 1080i50 as 480p (1323, 1328); the name
  is read before the test for NULL (967, 970).
* Frame rate (`dsVideoDevice.c`): `dsSetDisplayframerate` asks for `1920x1080px60` and looks
  for `1920x1080x60` in the answer (454, 469), so a console that repeats the request makes a
  success an error; `dsGetCurrentDisplayframerate` copies without the end of the string (433).
* EDID parser (`edid-parser.c`): the third number of the physical address is read from the
  identifier of the vendor (447), and any vendor block, that of the HDMI Forum too, overwrites
  the address (444); static HDR metadata erase a Dolby Vision or HDR10+ bit found before (421);
  a video code without a row leaves `found_native` set (263); the table lacks the formats of the codes 15 to 24, so that from code 15 on another
  format is given than the code means, 2880x576i50 for 1080p60 (163-246; nothing of this library reads the
  native timing); the native timing of a
  later extension goes before that of an earlier one (501); a name of 14 characters is taken,
  one more than a descriptor has (74); a pixel clock with one zero byte makes a timing invalid
  (89); an extension without timings is parsed from its header on when its offset is 0 (460);
  two extensions without a map are refused (689); the checksum is never asked for.
* Getters: `dsGetTVHDRCapabilities` reads uninitialised memory when the blob is gone
  (`dsVideoPort.c:1375`, 1403); `strcasecmp` lacks a negation (1615, 1648), so HDR10Plus is
  given no answer and Dolby Vision that of HDR10; a file without a comma is a write through
  NULL (1587); `numOfSupportedResolution` is counted up from whatever the caller left in it
  (`dsDisplay.c:288`).

## 7. What is not modelled

* Volume, mute: floating-point arithmetic around the mixer of the device, and one mixer control.
* Gain, intelligent equalizer, dialogue enhancer: in the build modelled (`AML_STB` and
  `HAS_COMPOSITE_IN_SUPPORT` defined) they only answer "not supported" (2057, 2802, 2907).
* MS12 profile: one variable is written and nothing is sent (1521).
* Getters of HDCP versions, surround mode, aspect ratio, quantization, colour depth alone: one
  read of a file or a constant, without state.
* Video device: the frame-rate mode, a value that the console keeps; HDR and codec lists; the
  descriptor of Init and Term.
* Host, front panel (stubs), configuration file, sysfs utilities, build.
* Inside what is modelled: texts (names of resolutions, console output, commands) are values;
  the rectangle of scaling, the OSD switches and logging are left out; memory is modelled for
  the two status blocks and for the capabilities of a display only; the argument of a switching
  thread is part of its creation; of an EDID the numbers that are only copied and the timings
  that are only printed. The displays of `SinkInfo` write valid blocks (`DisplayOK`), so that
  reads past an extension do not happen there; of other bytes the theorems of `EdidParserProofs`
  say that the parser ends and what type its answer has, not what it should be.

## 8. Plan

Done, in this order: `InputSelect` with `TvSelector` and its proofs, `VideoPort`,
`DisplayHotplug`, `AudioParams`, `Resolution`; then the composition of `DisplayHotplug` with
`VideoPort` through `PortReadiness`, `EdidParser` with `SinkInfo`, the frame rate,
the proofs of the other components, and at last that of the parser.

What could follow, most important first:

1. An abstract specification of an event source (on, off, alternating events) that
   `DisplayHotplug` and the monitor of `VideoPort` both implement.
2. EDIDs with damaged blocks, and the offsets that the walk then reads.
3. The descriptors of `dsVideoDevice.c` across Init and Term.
4. Proofs: which of the blocks counts when a display declares a kind twice, for displays that
   the standards do not allow.

New modules share the runs of the compositions that replace smaller ones.
