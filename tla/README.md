# A verification development for lab_scopes

lab_scopes drives LeCroy and Rigol oscilloscopes from Python, over TCP, without a
VISA runtime, and reads the files the drivers' users archive. The program keeps
little state of its own. What it does is a conversation with instruments that
have state, act between two exchanges, answer late, in pieces or not at all, and
whose registers remember earlier conversations. The modules here model these
conversations: the driver statement by statement, the instrument by what the
driver's code, comments and tests say of it.

## 1. Inventory

| Part (source under `src/src/lab_scopes`) | State | Operations | What makes it correct | Module |
|---|---|---|---|---|
| Rigol waveform read, `rigol/dho800.py` | loop variables of one read; the scope's trigger state, memory and window registers | `read_channel`, `wait_until_stopped`, `_read_full_waveform`, `_read_block`, `run`, `single`, `stop` | one whole capture in order, or an error; the loop ends | `RigolRead`, `RecordDelivery` |
| Rigol session, `rigol/dho800.py` 110-302 | connection; trigger state and display buttons in the scope | constructor, `close`, `run`, `stop`, `single`, `wait_until_stopped`, `displayed_channels` | a shot is of one capture, made in it, and of the channels displayed | `RigolSession` |
| Rigol configuration | none | scales, offsets, rates, `set_sweep`, `screen_png` | each is one exchange | not modelled |
| Rigol SCPI transport, `transports/rigol_functions.py` on `telnetlib_receive_all.py` | the telnet buffers; the unread part of the TCP stream | `command`, block parser, `get_memory_depth` | a reply is whole and belongs to its query | `RigolTransport` |
| Rigol facade, `rigol/legacy.py` | `_last_metadata` | `set_trigger_mode`, `displayed_traces`, `acquire`, `time_array` | the axis is that of the last acquisition | `RigolSession` |
| LeCroy shot, `lecroy/scope.py` 578-774 | none in the driver; trigger mode, INR, sweep counter in each scope | the arm, confirm and wait methods | no slave misses the master's edge; "complete" means captured in this shot | `LeCroyShot` |
| LeCroy construction, `lecroy/scope.py` 97-241, 350-376 | `n_channels`, `valid_trace_names`; CMR and unread replies outside | `rm_open`, channel count, probe, discovery, scan | exactly the scope's channels; a dead link is not masked | `LeCroyDiscovery` |
| LeCroy averaging, `lecroy/scope.py` 391-478 | locals; sweep counter, mode and format in the scope | `wait_for_max_sweeps`, `wait_for_sweeps` | the average has the sweeps asked for and none from before, and is frozen | `LeCroyAverage` |
| LeCroy transfer and VICP, `lecroy/scope.py` 480-573, `lecroy/sequence.py`, `transports/lecroy_vicp.py` | `wd`; the unread part of the TCP stream | `query`, `read_raw`, `acquire`, `acquire_sequence_data`, `time_array` | a call returns its own whole reply; segments and axis fit | `LeCroyTransfer`, `ReplyDelivery` |
| WAVEDESC tables, `lecroy/wavedesc.py` | none | `struct` layouts, timestamps | data | not modelled |
| HDF5 readers, `io/lecroy_files.py` 285-538 | locals; the file, which another program may still write | `read_hdf5_scope_channel_shots`, `read_hdf5_all_scopes_channels`, `read_hdf5_scope_data`, `read_hdf5_scope_tarr` | a row is the shot it stands for; what is complete is not lost | `ShotArchive` |
| Other offline readers, `io/` | none | `.trc`, `.txt`, descriptions | data | not modelled |
| `transports/socket_scpi.py` | a socket | unused by any driver | - | not modelled |
| rest of `telnetlib_receive_all.py` | - | vendored standard library | - | not modelled |

The parts interact by calls: the arm helpers start with the displayed scan of the
discovery part, both LeCroy waits read waveform headers with the transfer part,
and all of them stand on one VICP connection. The instruments interact by wire:
the master's trigger output is the slaves' trigger input. The archive is
shared: the readers open it while the acquisition program may still append to it.
There are no threads
in the package; all interleaving is between the driver and the instruments, or between a
reader and that program.

The behaviours that are hard are listed, each at its line, under "hazards" in
`PROJECT.json`: instruments acting between two exchanges (a capture between two
chunks, an edge between a write and its read-back), registers that remember (INR,
CMR, the sweep counter, the window registers, the transfer format), replies that
come late or in pieces, and waits and retries that have to end.

## 2. Modules

An action is one exchange with an instrument together with what the driver does
with the answer. Instruments act between any two of them. Data are
abstract: a sample is the capture, channel, format and place it comes from, a
reply is its query and its kind. Definitions marked "Variant:" in a module are
wrong forms of the definition after them; they are not part of any next-state
relation and are there to see that the properties notice.

**RecordDelivery** is what a read of a channel promises: a whole record of one
capture or an error, unless the read went on while `upset`, that is while a run of
the caller's was still to be obeyed or the connection owed replies. **RigolRead** is the
code. `pc` follows `read_channel` line by line; `start`, `window`, `first`, `tries`,
`record` are the locals of `_read_full_waveform`. The scope (`trig`, `gen`, `reg`)
completes captures while it runs, puts at most `Cap` points into a transfer, may send
fewer bytes, also an odd number of them in WORD, may declare none, and may move every
window when `FirmwareClamps`. `:RUN`, `:SINGle` and `:STOP` wait in `pending` until the
scope obeys: `command()` does not wait after them, so the STOP that ends
`wait_until_stopped` may be the one of before, and a capture may come between two
chunks. With `LateReplies` a text reply may miss its time-out or be cut (`link` is then
`late` until a whole block has been read) and a block may be given up (`torn` until the
caller connects again). `doubt` says that this read went on from such a STOP or such an
answer; the properties are about the reads that did not, because the code does mix two captures in
the others: TLC shows it in a few steps when `~doubt` is left out of `DeliveredWhole`. A depth read from another query's answer may be
any number; the calibration values are not in the model, so a wrong one is not either.
`LinkFails` is everything an exchange may raise. Nobody turns the scope's own RUN and STOP
keys during a read, window registers take effect at once, and what is left of a block
given up is taken for a block no longer than the window. A firmware that clamps and a
caller that does not read windows back (`verify_window=False`, the default) is excluded by
`WindowsTrusted`: the code says so itself, and then nothing can be promised.

**LeCroyShot** is one shot after another on a master and its slaves. The caller is
outside the package (the data-acquisition program the docstrings speak of); it arms
the slaves in any order, withholds the master when one is not confirmed, waits for
the scopes in any order, and after an incomplete shot stops them one by one, in any order,
and goes on with the next. Each of these stops is a `set_trigger_mode('STOP')`: its write,
and a read-back that sees STOP or gives up without a word. The scopes act in between, so the
master may fire after a slave has been stopped (`ToldToStop`), or after the shot was given up.
The scopes in `Lagging` take a written mode over later, in the order written (`told`; the reason for
the read-back loop), `ClearsInStop` says whether `CLEAR_SWEEPS` is obeyed in STOP (a
hardware test of the repository says it is not). The 25 attempts of the read-back loop
are one action that waits for an answer the loop accepts and one that gives up:
when arming for a scope that stays in AUTO, when stopping for any. A STOP given up may be taken
over shots later, in the middle of another; `steady` are the scopes that began the
shot unarmed and with no mode still to take over, and the properties of a shot are about
them: nothing the driver reads tells such a STOP from one of this shot. `clean` are the
steady slaves that began it in STOP and with INR clear: for
the others an old ready bit may confirm them too early, which is `LeCroyShotReady`.
`captured` and `pulse` count the master's edges, so that a property can say which edge a
record is of. 

**LeCroyDiscovery** runs from `*IDN?` to `valid_trace_names` and then
`displayed_channels`, of which any subset of the scope's may be on screen. `stream` holds replies sent and not read, so a reply that comes
after its time-out is read by the next query. `cmr` latches. `Dropped` and `Reset` are the
two ways a dead link shows: an end of stream, which the transport turns into
`ScopeConnectionError`, and the `OSError` of the socket, which it does not.

**LeCroyAverage** has the sweep counter split into sweeps from before the call
(`old`) and since (`new`), which the driver cannot tell apart. `CLEAR_SWEEPS` is ignored
in STOP and may be obeyed late. A trigger mode shows some time after it is written
(`written`, `pending`); each write is followed by the read-back loop of `set_trigger_mode`,
one action for the answer it accepts and one for giving up. `doubt` records a call that went on
from a mode the scope had not taken: after giving up, or after a STOP accepted for SINGLE.
The recursive call in `wait_for_sweeps` is a jump to its
beginning. Reads of the counter do not fail here; that is `LeCroyTransfer`.

**LeCroyTransfer** is one query after another over one VICP connection. The scope
cuts a reply into frames as it likes, the last possibly empty. A read may give up
before its reply begins (`late`), between frames (`cut`) or inside one (`lost`).
After the last nothing is known of what later reads decode, and the model lets
them return anything. `MCLeCroyTransfer` gives the waveforms: none, one
segment, two segments, and one sample that two segments cannot share.

**ReplyDelivery** is what such a connection promises, in four actions. Replies carry no
name of their request, so the promise has three levels of trust: the reply to this request
(no call has failed), one whole reply to some request so far (a reply was late), anything
(a reply was left in the middle). Only a failed call lowers it, only a new connection
restores it. `LeCroyTransfer` implements it (`DeliversReplies`): `AnswerOf` finds the
request whose whole reply the answer is, and `skew` gives the trust.

**RigolTransport** is one query after another over the raw socket of the Rigol.
`stream` is what the scope has answered and no `recv` has taken; `cooked` is
`Telnet.cookedq`; `msg` is the block as far as it has been read. A `recv` brings any
first part of the stream, so a chunk may end anywhere and may bring more than the
reply. Two flags say which reads have given up: `late` a text read since the last
block, `torn` a block read. Cells are bytes of which only what the code looks for is
known, and the data of a block may imitate a block (`MCRigolTransport`). `RigolRead` does
not instantiate this module: it takes from it that an exchange without time-outs gets its own whole
reply (`OwnBlock`, `OwnText`), that after a text that timed out texts are out of step until a whole block
(`OwnText`), and that after a block given up nothing is sure (`WholeBlock`). `RigolSession` does the same.

**RigolSession** is one shot after another through the facade `RigolScope`, as its README and
docstrings show: SINGLE, poll the status, `displayed_traces`, `acquire` of each, `time_array`.
`pending` are commands written and not obeyed: `command()` sleeps after some commands, and not
after `:SINGle`, `:RUN`, `:STOP`. `link` is what earlier time-outs left on the connection, as in
`RigolRead`, and it outlives the shot: on a `late` link the status, the scan and the start of a
read take the answers of other queries, until a block has been read whole or the caller connects
again. A shot that went on from a STOP that was not the scope's after SINGLE is `hasty`;
one in which a display button was pressed, a read failed or the scan took an answer not its own is
`missed`; one with a record that rests on another query's answer is `astray`. What such a
read returns is the capture in memory or `Mixed`, no one capture's record. `meta` is
`_last_metadata` with the order of its keys. A read of a channel is one step, which gives
what `RigolRead` shows it to give. A channel may be acquired again.

**ShotArchive** has a writer (external: the acquisition program) that adds groups, samples and
headers or marks a shot as skipped, between any two looks of the reader. The reader is
`read_hdf5_scope_channel_shots` (pass one finds the scaling, pass two makes the rows and their
width) or `read_hdf5_all_scopes_channels`, a shot or a channel per step. A volt is told by the shot,
its number of samples and the scaling. `held` are `data`, `dt`, `t0` as the loop over the channels
leaves them. `ready` is what could be read when the call began, so that a property can say what
the race may cost.

## 3. Runs

All passing runs check deadlock unless the caller may stop: in the LeCroy runs
except `LeCroyTransfer` it may, after the last shot, call or scan, and in `ShotArchive` when the call has returned.

| Run | Bounds | Shows |
|---|---|---|
| `RigolRead` | 3 points, cap 2, 2 channels, 1 retry, one capture after the first, one command waiting, any window answer, replies late, cut or torn, new connections | `Consecutive`, `DeliveredWhole`, `ReadEnds`; implements `RecordDelivery` with its liveness |
| `LeCroyShot` | 2 slaves in AUTO or STOP, 2 shots, the master and one slave take modes over late | `CompletionFresh`, `SameEdge`, `NoEdgeMissed`, `EachShotEnds` |
| `LeCroyShotStale` | clears ignored in STOP and lagging modes | violated: completion is fresh |
| `LeCroyShotReady` | slaves in AUTO | violated: a ready bit means listening |
| `LeCroyDiscovery` | 2, 4, 8 channels, any of them displayed, 2 late replies, link may die | `DiscoveryExact`, `ScanExact`, `ConstructionEnds` |
| `LeCroyDiscoveryAll` | all trace names | violated: discovery is exact |
| `LeCroyAverage` | 3 sweeps wanted, counter to 5, 2 late clears, 2 calls, modes show late | `AverageFresh`, `AverageFrozen`, `CallReturns` |
| `LeCroyTransfer` | 2 queries per connection, up to 4 samples | `AxisFits`, `CallEnds`; implements `ReplyDelivery` with its liveness |
| `RigolTransport` | 4 queries per connection, blocks of up to 3 bytes | `OwnBlock`, `OwnText`, `OneText`, `WholeBlock`, `CallEnds` |
| `RigolSession` | 2 channels, 3 captures, 2 shots, one command besides SINGLE waiting, answers late, cut or torn | `OneCapture`, `ShotExact`, `AxisOfShot`, `ShotEnds` |
| `RigolSessionAxis` | 2 channels, 2 captures, 2 shots | violated: the axis is that of the most recent `acquire()` |
| `ShotArchive` | 2 scopes, 4 datasets, up to 2 samples, 2 scalings, a shot never taken | `RowsAreShots`, `CompleteKept`, `SameAsSingle`, `TreeIsShot`, `AxisFits`, `FinishedShotRead` |

Why the bounds are enough. Rigol: 3 points with a cap of 2 give a first chunk that is
capped, a learned window, a short chunk inside a window, a last window of one point and
half points; one capture after the first is what mixing takes, and one waiting command brings it in at any
place of the read. Shots: two slaves give an arming order, a slave that is confirmed while the
other is not, and one that is stopped while the other still listens; a second shot is what
leftovers take, a STOP taken over in mid-shot among them. Two scopes that lag and one that
does not keep the run small; the proofs are for any. Discovery: the three front ends that exist, two names beyond the channels. Average: a
late clear of one call can meet the next call; the counter may stop short of, meet or exceed
the sweeps wanted. Transfer: a second query is what a late reply takes; a waveform of six
cells is cut into frames in every way. Rigol transport: a text that is late, the text taken
with it, the block that drops it and the text query after that are four queries.
Session: two channels are what an order of keys takes; the cache must be filled in one shot and
refilled in another order in the next; a link one shot leaves late shifts the next, unless a
read of the first puts it right. Archive: rows need
two shots of different length, written in either order with respect to the two passes, and one that
is never there; the axis needs a second channel and a second scope. `MaxPending`, `MaxShot`, `MaxSweeps`, `MaxGen`,
`MaxLate`, `MaxCalls`, `MaxQueries`, `MaxWanted`, `MaxTotal` are bounds of the model, not of the code; a counter
of sweeps at its bound stays there.

The violated properties are sentences of the repository; `findings` in
`PROJECT.json` quotes them and says what the code does.

**Fairness.** Weak fairness of the driver's steps: the driver is a running thread and every
exchange returns or reaches a socket time-out. Nothing is assumed of instruments: they may
never trigger, never finish a reply, never obey. In `LeCroyShot` the deadline of
a wait is strongly fair: `while time.time() < deadline` looks at it on every turn, but a
turn that finds STOP leaves the place where it is looked at for the counter read.
`LeCroyAverage` asks weak fairness of the deadline of its counting loop by itself, since
the loop may always read another count. In `RigolTransport` the fair steps are the
time-outs and the return of a line that is there; bytes never have to arrive.
In `RigolSession` the steps of a shot are fair, its caller's included, who reads each channel once it
has begun; starting a shot, a poll that sees STOP and every action of the scope are not. `ShotArchive` has no liveness: both loops are over finite lists.
The liveness of the restart rests on the
bound `MaxLate`: a scope that obeyed clears late without end would keep the code in
its recursion.

## 4. Proofs

TLC checks the instances above. TLAPS proves, for every value of the constants, every
invariant and every action property of the passing runs, and the steps of the two refinements.

| Module | Theorems | Under |
|---|---|---|
| `RigolReadProof` | `TypeCorrect`, `ChunksConsecutive`, `ReadsWhole`, `DeliversPromise` | `WindowsTrusted` and `~doubt`, stated in the second and third property; the last: `WindowsTrusted` |
| `LeCroyShotProof` | `TypeCorrect`; `CompleteScopesAreFresh`, `AllHoldTheSameEdge`, `CleanSlavesSeeThePulse` | the last three: clears obeyed in STOP, or modes shown at once; scopes that were steady, as the properties say |
| `LeCroyDiscoveryProof` | `TypeCorrect`; `DiscoveryIsExact`, `ScanIsExact` | the last two: candidates are the input channels |
| `LeCroyAverageProof` | `TypeCorrect`, `CompleteAveragesAreFresh`, `ReturnedAveragesAreFrozen` | - |
| `LeCroyTransferProof` | `TypeCorrect`, `AxesFit`, `ImplementsReplyDelivery` | - |
| `RigolTransportProof` | `TypeCorrect`, `BlocksAreOwn`, `TextsAreOwn`, `TextsAreNotMixed`, `BlocksAreWhole` | - |
| `RigolSessionProof` | `TypeCorrect`, `ShotOfOneCapture`, `TimeAxisOfShot`, `ShotHasTheDisplayed` | - |
| `ShotArchiveProof` | `TypeCorrect`, `StackOfShots`, `CompleteShotsKept`, `RowsAsReadAlone`, `ResultIsTheShot`, `AxesFit`, `FinishedShotsAreRead` | - |

Assumptions used are those the modules state on their constants and no others. The provisos in
the last column cannot be dropped: `LeCroyShotStale` and `LeCroyDiscoveryAll` are runs without
them, and a window the firmware has moved and nobody has read back lets `start` pass the end of the record.

The inductive invariants, and why they are needed:

- `RigolReadProof` (`IInv`). Types hold of every read, doubtful ones included (`TInv`). Between the
  wait for STOP and the end of a read without doubt the scope is stopped and no run is pending
  (`Held`), and the source and format registers are the request's (`Selected`); in the loop `record` is the
  prefix of length `start - 1` of the capture in memory (`Joined`); at a `DATA?` the window
  registers hold the window asked for. Stopped is needed because the record relates to the capture now in
  memory, which must not change: only the absence of a pending run keeps it so, and that is what `doubt` is
  about. The registers are needed because a chunk is read through them. `PrefixGrows`
  (joining the next samples to a prefix) and `WholePoints` (bytes to points) are the facts about
  data. Each step of the read then maps to `Capture`, `Proceed`, `Deliver`, `Refuse`, `Ask` or a stutter.
- `LeCroyShotProof` (`IInv`, `EdgeInv`). A steady scope has at most one mode to take over until the
  stopping begins (`OneTold`); once written to, STOP together with a counter means an edge of this shot
  (`WrittenFresh`), and the invariant carries this through the clear and the counter read. One edge for all
  takes more: the master pulses at most once between two shots (`MasterOnce`), and not before every
  slave is confirmed; the ready bit of a clean slave can only have come from the arming
  that was then confirmed, so it listens when the master pulses (`CleanReady`), and goes on
  listening while the scopes of a failed shot are stopped, until its own STOP is written (`CleanTold`).
- `LeCroyDiscoveryProof` (`IInv`, `TypeInv`). Conditional on a link that has not been late or down: no
  reply is left over, CMR is clear before every probe and candidate, and each loop has
  accepted exactly the names it has passed. The condition can only become false, which is why
  conditional induction works. Types hold on every link; they need that a loop stays
  within the names it is about, and that nothing is accepted before the count is settled.
- `LeCroyAverageProof` (`AverageInv`). Six parts: which steps a call for one sweep, or for more, can be
  at (`Route`); STOP after SINGLE, once SINGLE is taken, means a sweep (`OneSweep`); a clear is written
  to a scope that runs (`Runs`), so what is counted afterwards is new unless a clear is still to be
  obeyed (`OnlyNew`); the counting loop was left with enough sweeps or by its deadline
  (`Reached`); the final count is read from a stopped scope (`Stopped`). Each but the first and
  `Reached` is claimed as long as no mode was left untaken (`doubt`).
- `LeCroyTransferProof` (`TypeInv`, `DeliveryInv`). The frames not read continue each other up to
  where the scope is in its reply (`Chained`, `LastSent`); unless a read was cut or lost they
  continue the message, which is the beginning of one reply (`InStep`); and while no read
  has given up nothing else is under way (`OneReply`). With it each step is a step of `ReplyDelivery`
  or a stutter: this is the safety half of `DeliversReplies`. `AxesFit` is inductive with the
  types alone: it rests on the checks the driver makes against `wd`, and not on the bytes being in place.
- `RigolTransportProof` (`WireInv`). It is about the *wire*: the cells the driver holds followed
  by those it has not received. The wire is a run of whole replies in the order of their queries,
  except that the first may have lost its beginning (`Sound`). Until a block read gives up there is no block
  on it, besides the one being read, and that from its beginning (`Quiet`): the first `#` is then the
  block's own, also if its data are full of them. Until a text read times out either, nothing
  is on it but the reply to the query in progress (`Fresh`). There is one lemma for each step;
  `LeastNumber`, from the library's well-founded induction, gives the first `#` and the first
  newline.
- `RigolSessionProof` (`IInv`, `ScanExact`). While the status is polled SINGLE is the last command
  waiting or has been taken, and then STOP means a capture of this shot (`SingleLast`); from there on nothing
  makes the scope capture until the shot ends, if it is not hasty (`HeldStill`). The cache has the record's own
  metadata for each channel read in this shot, whatever the record is worth (`KnownAxis`), which is why the place
  of a key no longer matters when all have been. `CachedKeys` says what an assignment does to a dictionary and
  to its order, `OutcomeRecord` what a read may give. `ScanExact` says of a shot that missed nothing that the
  scan has found the displayed among the channels it has looked at; nothing is assumed of the link, since an
  answer out of step is itself a miss.
- `ShotArchiveProof` (`IInv`, `TreeInv`). The first pass has passed over no shot that was complete and is
  not skipped, the width never changes once a row has it, and the writer takes nothing back:
  the two passes may see two different files, and only these facts carry over. For the scaling,
  it is that of a shot asked for, and rows are scaled by it. For all scopes: what was promised when the call
  began is present in the scopes and channels passed; `held` are the data of this scope once
  it has a channel; and a skipped group has a dataset that was not complete when the call began. It uses that `Scopes`
  and `Channels` are lists of names (`OrderAssumption`).

Only model-checked: liveness (`ReadEnds`, `EachShotEnds`, `ConstructionEnds`, `CallReturns`,
the two `CallEnds`, `ShotEnds`, and the fairness part of `Implements` and `DeliversReplies`), which
the prover does not reach, and the four runs that end in a violation.

## 5. Not modelled

Scaling to volts and time axes, offsets inside a WAVEDESC, printing, file formats,
screenshots and single-exchange configuration. The `.trc` and `.txt` readers, which read a
finished file from beginning to end. The transfer format in `LeCroyAverage`. The sequence
number of a VICP frame, which the driver writes and never reads. Memory limits and speeds.

Seen in the code and stated by no property, since one action alone decides each:

- `_read_block` raises for a block that declares no data (`rigol/dho800.py` 204), so the retry that
  line 367 promises for an empty chunk is reached by a WORD block of one byte only.
- A reset or a broken pipe is not wrapped by the VICP transport (`lecroy_vicp.py` 125-150) and is
  swallowed by `_detect_channel_count` (`scope.py` 194), so a dead link may end as four channels.
- `wait_for_sweeps` leaves `COMM_FORMAT` at BYTE (`scope.py` 453), where a hardware test
  (`tests/test_lecroy_averaging_real.py` 263-278) expects WORD.
- After a stop one by one, a slave stopped before the master misses an edge the master still makes
  (`scope.py` 588); the shot has been given up by then.
- A Rigol reply that comes late is never thrown away by a text query (`rigol_functions.py` 117-126): the
  scan of a later shot may list other channels than those displayed, and calibration values may be
  another query's. `RigolSession` exempts such shots, and `RigolRead` such reads.
- With late replies, construction and scan of a LeCroy scope count wrongly (`scope.py` 217, 226, 364).

## 6. Plan

Done: the batched read, the shot, discovery, averaging with lagging modes, the VICP transfer and
its abstract channel, the Rigol transport, the facade's shots, the archive; the proofs of their safety
properties. Left:

1. Late replies under the shot: `LeCroyShot` on `ReplyDelivery` at its second level of trust. A mode
   read back would then be an earlier one.
2. What a late link costs discovery: a bound on the channels it may add or lose (`scope.py` 226).
3. What of liveness is in reach of proof: the measures that the loops decrease (the points left to read, the channels
   left to scan, the names left to try), as action properties.
