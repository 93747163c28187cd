# TLA+ models and proofs of the Raspberry Pi car

The repository holds the programs of a small four-wheel car driven by a
Raspberry Pi. One directory is one homework, most of them a later version of
the one before: blinking and toggled lights (hw1, hw3), dimmed lights (hw4), a
car driven by the keyboard (hw5), with line tracing (hw6), with an inertial
sensor (hw7), with a camera (hw8, hw9). The README of the repository names hw7
and hw9 as the important ones. All are multi-threaded C programs whose threads
share plain global variables without locks; that, and not any single
computation, is what makes them hard to test.

## Inventory

### hw7: the car (`src/hw7Damico/hw7Damico.c`)

Five threads of one process:

| Thread | State it writes | Operations |
|---|---|---|
| key thread (`ThreadKey`) | `m0 m1 m2`, `done`, `forward1 backward1 stop1`, the two mailboxes `leftSwitchVar rightSwitchVar`, `leftCount rightCount` | one case per key: `m0 m1 m2`, `q s w x i j a d`, and the printing keys `p n t` |
| motor threads (`leftHandle`, `rightHandle`) | their mailbox, the three flags, their duty level and its saved copy, their counter, the H-bridge pins, the PWM registers `DAT1 DAT2` | one case per command: stop, forward, backward, faster, slower, left, right, trace the line |
| IMU thread (`imuHandle`) | the reports, distances, average speeds, the path map, the files | calibrate, then 20 times a second read, append, accumulate, plot, write to a file |
| `main` | pins and registers before and after the others run | create four threads, join them, stop the car |

Interactions: the key thread posts a number to each mailbox; a motor thread
polls its mailbox, executes the case and then sets it to -1. The flags
`forward1`, `backward1`, `stop1` are written by the key thread and by both motor
threads, which test them to decide whether to brake first; the IMU thread reads
`forward1` and the mode flags four times per reading to decide what to record,
the key thread reads `stop1` to decide whether `p`, `n` and `t` are allowed.
`leftCount` and `rightCount` are incremented by the key thread and decremented
by a motor thread. While tracing a line each motor thread writes both PWM
registers.

What makes it correct: `s` stops the car; both wheels end with the same
command; a wheel is braked before it is reversed; duty levels stay within the
PWM range and come back after a turn; corrections while tracing are undone; a
reading is recorded as a whole or not at all; the path stays on its map; a
report is not printed while it is written; `q` ends all threads and leaves the
car stopped.

### The display channel (`src/hw9Damico/draw_bitmap.c`, the same file in hw8)

A program draws pictures into one of two bitmaps and a GUI thread copies the
newest one to a window every 30 ms. A lock protects the index of the newest
bitmap and the flag that a reader is inside; the pixels are copied without it.
It is support code: the car programs of hw8 and hw9 do not link it.
What makes it correct: writer and reader never use the same bitmap, so that the
window never shows parts of two pictures; newer pictures get through; closing
the window ends the thread.

### hw9: the camera car (`src/hw9Damico/hw9Damico.c`)

Six threads. The key thread is like that of hw7. The left motor thread drives
the pins of both sides and, in case 7, follows the laser; the right one has
work of its own for the speed and for turns only, and a turn writes both
registers. A camera thread grabs and scales pictures and sets `newPicture`; an
image thread looks for the first red pixel and sets `left`, `right`, `straight`
or `nothing`; the left motor thread acts on them and clears them. `main` joins
the five and stops the car.
Hard: all five are flags set and cleared by two threads without a lock, the
scaled picture is overwritten while it is read and freed after `q`, two motor
threads write the same registers.
What makes it correct: a sighting of the laser is acted on once; the picture's
memory is there while it is scanned; turns leave no wheel at a level nobody
gave it; `s` and `q` work in the middle of a move; the car is stopped at exit.

### The lights (`src/hw4Damico/hw4Damico2`, `src/hw3Damico/hw3Damico2`)

hw4: one thread per light dims it up and down while its colour is on and holds
it while it is off; a key thread toggles colours. hw3: two lights share a pin
(one is lit by a low output, the other by a high one, both by a pin that
alternates), one thread per pin follows a switch variable that the key thread
changes. In both, `q` sets `done`, and `main` joins the threads.
What makes them correct: switching takes effect although most loops do not test
the switch; levels stay within a period; `q` ends the program.

### The rest

hw8 is the earlier version of hw9, with line tracing by camera; hw5 and hw6 are
earlier versions of hw7's drive. hw3_1 and hw4_1 are the light programs without
switches. hw1 blinks. Every directory has the same register mapping and PWM
clock setup (`import_registers.c`, `enable_pwm_clock.c`). `raspicam-0.1.5` is
third-party code. `PROJECT.json` lists each with the reason it is left out.

## Modules

| Module | What it is |
|---|---|
| `WheelPair` | the abstract drive: a pair of wheels that follows one order after the other |
| `CarDrive` | the driving threads of hw7: key thread, both motor threads, the joins and the stop in `main`; the IMU thread only as a thread that ends; refines `WheelPair` for a patient user |
| `MCCarDrive` | the key budgets TLC uses for `CarDrive` |
| `CarDriveProofs` | theorems about `CarDrive`, for every user |
| `CarDrivePatientProofs` | theorems about `CarDrive` for a user who waits until a key has taken effect, the refinement included |
| `ImuRecorder` | the IMU thread of hw7 with what the others write of the flags it tests; the path map; the time between two readings |
| `MCImuRecorder` | `ImuRecorder` for TLC, with samples for the time computation |
| `ImuRecorderProofs` | theorems about `ImuRecorder` |
| `Sightings` | the abstract laser follower: a set of sightings, each good for one move |
| `LaserCar` | hw9: camera, image, key and both motor threads, the joins and the stop in `main`; refines `Sightings` |
| `MCLaserCar` | the key budgets TLC uses for `LaserCar` |
| `LaserCarProofs` | theorems about `LaserCar` |
| `LaserCarFollowProofs` | theorems about following the laser, stopping and quitting in `LaserCar`, the refinement included |
| `PictureChannel` | the abstract display channel: a cell that holds one whole picture |
| `BitmapChannel` | `draw_bitmap.c`: two bitmaps, index, flag, pixel-by-pixel copies; refines `PictureChannel` |
| `BitmapChannelProofs` | theorems about `BitmapChannel`, the refinement included |
| `LightDim`, `LightDimProofs` | hw4's second program and theorems about it |
| `LightsToggle`, `LightsToggleProofs` | hw3's second program and what is proved of its end |

In several modules a definition with an underscore in its name (`Ack_Both`)
is the mutated form of the one it is named for: a plausible bug, which the run
of a property must detect when the definition is replaced by it.

### CarDrive and the code

Each thread is a program counter `pc[t]`; a value of it names the next access to
a shared global. `leftHandle` and `rightHandle` are the same operator `Motor`
with the side as its parameter: the two C functions differ in the globals they
use and in cases 5 and 6 (`Case`: the left thread turns on 5 and only clears its
mailbox on 6, the right one the other way round), in the order of the two
register writes while tracing, where both write `DAT2` before `DAT1`
(`SteerLeftWheel` before `SteerRightWheel`), and in who is slowed (`SteerDuty`).

* Cases 0, 1, 2 and 7 start alike: test two flags (`TestFirst`, `TestSecond`,
  the second one only if the first is not 1), clear both (`ClearFirst`,
  `ClearSecond`), brake for half a second (`Brake`), set the pins (`Drive`).
* Cases 3 and 4 are `Speed`; cases 5 and 6 are `Hold` to `RestoreDuty`, with the
  read and the write of `leftCount = leftCount-1` as two steps.
* Case 7 is `MarkForward` and `SetTraceDuty` to `EvenRightWheel`; the line
  sensor is an arbitrary Boolean at every test. Case 7 does not clear the
  mailbox: it ends when the key thread posts something else, or with `done`.
* `Ack` is the trailing `leftSwitchVar = -1`, `Loop` the `while (!done)`.
* The key thread is `ReadKey`, `ReadMode` (the character after `m`) and
  `ActOnKey`: it writes a flag or `done`, the right mailbox, the left mailbox,
  and then, for `a` and `d`, reads and writes the counter.
* The refinement maps the last of the keys `s`, `w`, `x` to the `order` of
  `WheelPair` (any other key finds both wheels alike, and then the order is what
  the wheels do), and a side to `behind` while that key is not posted to it, in
  its mailbox, or executed up to the pins (`Behind`). `ReadKey` is then `Give`,
  `Brake` is `Brake`, `Drive` is `Follow`, `main` is `SwitchOff`, and everything
  else stutters: posting, testing and clearing flags, speed, turns, tracing,
  modes. A `w` typed while the line is traced is an order to go on as before;
  case 7 does not look at it, which is why such an order need not be followed.
* `p`, `n` and `t` print under tests of the mode and of `stop1` and change
  nothing; they have no action. `ReportsAllowed` and `ReportsAtRest` say what
  their test finds.

The program is built without optimisation (`gcc -g -c` in the Makefile), so
every access in the source is an access in the binary, in that order. A step
makes one access to a variable that another thread writes, except where no
thread could tell:

* `done` only ever changes from false to true, and the key thread writes it
  before it writes the mailboxes. A test of `done` together with a mailbox, a
  counter or the sensor therefore has, for every outcome, one instant at which
  reading all of them at once has the same outcome.
* `m0`, `m1` and `m2` are read by the key thread alone among the modelled
  threads: one variable `mode` stands for the three. (`ImuRecorder` has the
  three flags, since the IMU thread reads them.)
* A side's two pins, its register outside line tracing, `dutyLevel` and
  `dutyHold` are used by one thread only, and nobody reads pins and registers
  back: writes of them are merged into one step. The two pins of a side pass
  through one other value between their two stores, for less than a
  microsecond; the brake that the properties speak of lasts half a second.
* The four joins of `main` are one step that waits for all four.

Sleeps are not modelled: any other thread may do any number of steps between
two steps of a thread, which includes what happens during a sleep.

### ImuRecorder and the code

A reading has four parts, each of which tests the mode flags and `forward1` anew:
the accelerometer's half of a report line (`acc`), the magnetometer's half after
an I2C exchange (`mag`), the distance, which in m2 also moves the path map, and
the file. `TestMode` and `TestForward` read one of the four globals each, in the
order of the `if`, `else if` of that part; `Take` and `Refuse` are the two
outcomes, and `AddDistance` with `PlotCell` is what the distance part does in m2.

* The key thread's `m` and digit is `ChooseMode` and three `WriteMode` steps:
  `m1`, `m2`, `m0`, in this order for every digit, so that for a moment no flag,
  or two, may be true. `forward1` is written by `w` and by motor threads: here
  it changes at any time (`SetForward`), which includes all that `CarDrive` does.
* What is recorded is reduced to where it went (`chosen`) and to which report
  ends with half a line (`openLine`). The two computed distances are reduced to
  their comparisons: whether the car went far enough for a row, and whether it
  drifted enough for a column, and to which side.
* `DeltaT` is the time between two readings from `gettimeofday`'s two fields.
* `steady` and `drift` are history: no flag was written since the reading began,
  and how often the column moved.
* Calibration, which comes before the first reading, works on variables of the
  thread only.

### BitmapChannel and the code

Each section under the lock is one step (`ChooseBitmap`, `Publish`,
`EnterChannel`, `LeaveChannel`), each pixel copied is one step on either side.
A picture is a number: pixel `p` of a bitmap holds the number of the picture
it was drawn for, which is what tells a torn picture from a whole one. The
picture copied to `window` is what `cairo_paint` shows. `destroy` is the user
closing the window, which the GUI's main loop handles between timeouts.
`time_to_exit` is set without the lock, as in the code.

The refinement maps the bitmap that `most_recently_updated` selects to
`offered`. `Publish` is then `Offer` (or a stutter when a reader is inside),
`Paint` is `Show`, everything else stutters.

### LaserCar and the code

Threads are modelled as in `CarDrive`, with the same merging of accesses where
not said otherwise below.

* The camera thread is `OpenCamera` (which may fail, and then the thread ends),
  `Grab`, `Scale`, `Deliver` and `FreePicture`. A picture is reduced to what the
  image thread makes of it: whether its first red pixel lies in columns 0-100,
  220-319, in between, or nowhere.
* The image thread is `ImageLoop` to `ClearPicture`. `newPicture = 0` follows on
  every turn of the loop, also if no picture was processed. A scan while the
  camera thread overwrites the picture, or after it freed it, may find
  anything (`Seen`).
* Both motor threads have `Fetch` (the test of `done` merged with the read of the
  mailbox that follows it), `Speed`, the turn (`Hold` to `RestoreDuty`), `Ack` and
  `Leave`. The right thread only clears the drive commands, and leaves 7 in its
  mailbox; the drive commands are the left thread's `DriveCase`.
* Case 7 of the left thread is `StartFollow` to `Rest`. It does not test `done`;
  it ends when the mailbox changes, and falls into the empty case -1.
* A thread that writes both registers writes its own side's first (`SetBoth`);
  the other store is kept in `store` and made by `SecondStore`, before anything
  else the thread does. In between the other thread may store there, too.
* The key thread posts 7 already when mode 2 is chosen. Keys a mode ignores
  change nothing and have no action.
* `key` and `cmd` are what `CarDrive` has; `pictures` and `due` are history.
* The refinement maps the directions that are set, and not just being answered,
  to `seen` of `Sightings` and the direction the left thread acts on to `taken`:
  `Decide` and what follows it in the image thread is `See`, the test that finds
  a direction set is `Begin`, the store that clears it is `End`, and everything
  else stutters. A direction seen while it is acted on is cleared with it.

What is read in one step: `newPicture` with `m2`, because only the image thread
itself clears the former, and `m2` with `done`, because `done` never becomes
false again. Pins are written by the left thread alone until `main` is left.
`dutyLevel` is its own thread's and nobody reads a register, so the store of a
level and of the register is one step (`Speed`). A count is read in one step and
written in another, on both sides of the race.

### LightDim, LightsToggle and the code

`LightDim` has the three nested loops of a light's thread: `Active`, `Ramp`,
`Show`, with `Step` changing the level, and the loop that holds the light
(`Hold`). The first and the last test the colour, and so do the six waits within
them, in which `ONcount` and `OFFcount` are counted down: `Lit` and `Unlit`,
while dimming up and down, `HoldLit` and `HoldUnlit`. A count of a wait is a
step (`Wait`), which reads colour and `done` at once, since `done` never becomes
false again. `count` is the counter of the wait the thread is in; that a wait
is not longer than a period is what the range of `level` says. `loops` is the
thread's own and counted down before the second wait instead of after it. `down` is the opposite of `up` in every
state in which it is read.

`LightsToggle` has the four successive conditions of a pin's thread, each of
which reads the switch anew, and the inner loop while both lights are on. The
stores that make a pin an output with a value are one step, since only the
pin's thread writes it.

## Runs

| Run | Module, bound | Shows |
|---|---|---|
| `session` | `MCCarDrive`, both modes, up to 2 `w`, 1 `x`, 1 `j`, 2 `s`, `q`; the user waits until the car has settled | `TypeOK`, `StopHonoured`, `WheelsAgree`, `ReportsAllowed`, `StopEndsRecording`, `ReportsAtRest`, `ImplementsWheels` |
| `turns` | `MCCarDrive`, `m1`, two `i` of 60 each, two `a`, `q`, typed at any moment, fair threads | `TypeOK`, `DutyFollows`, `TurnEnds`, `TurnProgress`, `QuitProgress` |
| `trace` | `MCCarDrive`, `m2`, `w`, `s`, `q`, typed at any moment, fair threads | `StoppedAtExit`, `SteeringUndone`, `StopTakesEffect`, `QuitEnds` |
| `stop_lost` | `MCCarDrive`, `m1`, `w`, `x`, `s`, `q` at any moment | `StopHonoured` fails |
| `reverse_unbraked` | as `session` | `BrakeBeforeReverse` fails |
| `imu` | `MCImuRecorder`, rows 2 to 5, two readings a cell, one drift, flags written at any moment | `TypeOK`, `WholeReading`, `RowOnMap` |
| `map_column` | `MCImuRecorder`, the code's rows 2 to 18, one reading a cell, four drifts | `ColumnOnMap` fails |
| `bitmaps` | `BitmapChannel`, 3 pixels, 6 pictures, fair GUI thread | `TypeOK`, `NeverSameBitmap`, `NoTornPicture`, `ImplementsChannel`, `OfferedIsShown`, `CloseEnds`, `CloseProgress` |
| `laser` | `MCLaserCar`, `m2`, `s`, `q` at any moment, 1 picture, fair threads | `ScansLiveMemory`, `StopHonoured`, `StopTakesEffect`, `QuitProgress` |
| `laser_modes` | `MCLaserCar`, either `m1`, `i`, `a`, `d`, `q` or `m2`, `q` and 2 pictures, at any moment | `TypeOK`, `StoppedAtExit`, `DutyAfterTurns`, `ImplementsSightings`, `QuitProgress` |
| `lights` | `LightDim`, 2 lights, 3 levels, fair threads | `TypeOK`, `PauseTakesEffect`, `DimsUpAndDown`, `DimProgress`, `QuitEnds` |
| `quit_stuck` | `LightsToggle`, fair threads | `QuitEnds` fails |

The four runs that fail are disagreements between the code and what it says of
itself; `PROJECT.json` quotes the lines.

* `stop_lost`: `w`, then `s` while the left thread is between taking the
  command and `leftSwitchVar = -1`. The mailbox is cleared, `s` is gone, the
  wheel drives on. The window is half a second long when the command brakes.
  The same race on one side only leaves the wheels with different commands.
* `reverse_unbraked`: forward, then `x`. The first thread sees `forward1`,
  clears it and brakes; the second sees it cleared and reverses at once. It
  needs no hurry on the user's side, so it is checked with the patient one.
* `map_column`: the row of the path turns round at 2 and 18, the column does
  not. Four drifts to the right take it from column 3 to column -1, outside
  `mapArr[20][20]`.
* `quit_stuck`: both lights of a pin on, then `q`. The key thread ends; the
  pin's thread is in `while (redGreen == 3)`, which nothing ends any more.

`session` is the other side of the first: with a user who lets every command
finish the promises hold, also those about the flags, and the two threads with
their two mailboxes cannot be told from one drive that follows each order
(`ImplementsWheels`). `Patient` stands for that user: a key is pressed only when
both motor threads wait for a command or trace a line.

`WholeReading` speaks of readings during which no flag is written. If one is,
the halves of a line can go to two reports, or one half can be missing: nothing
in the code prevents that, and nothing in it says that it does not happen.

Four comments of the source need a word:

* `hw4Damico2.c:139` says "loop to hold the light at the same level while
  paused". A light that is switched off first dims up to the top and down to 0,
  and is held there: at level 0 only (`HeldDark`, the theorem `LightsHeldDark`).
  No run shows this, since the theorem says it of every run.
* `hw4Damico2.c:364` says of the last line printed "this line will not be
  executed". It is: `QuitEnds` of `lights` says that `main` gets there.
* `hw4Damico2.c:20` promises full dimming up and down, which holds for a light
  that stays on (`DimsUpAndDown`); that this takes 3 seconds is not modelled.
* `draw_bitmap.c:34` notes that "the display will not make progress" when
  the GUI thread is slower than its timer, since then a reader is always inside
  and no new picture is published. `OfferedIsShown` does not contradict it: it
  speaks of a picture that was published. `Publish` may be refused for ever.

The properties named `...Progress` are the safety half of the liveness
properties beside them: a count of the steps that are left, which every step of
the thread lowers. `QuitProgress` says that no thread goes back once `q` is
typed, `TurnProgress` that a turn uses up its presses, `CloseProgress` that the
GUI thread begins no other copy once its window is to be closed, `DimProgress`
that a light gets to the next test of its colour. With the scheduling that
`FairSpec` states they are why these ends are reached; unlike these they can be
proved for every value of the constants. For hw9 the count stands alone: its six
threads make a liveness property costly to check, and a step is always left
before the end, since deadlock is checked, too.
`DutyAfterTurns` is all that hw9 promises of turns: the outer wheel keeps full
level after one, since only the inner wheel's register is set back.

### Bounds

The only bound of `CarDrive` is `Budget`, how often the user presses each key;
the threads run freely. The hazards need two or three keys in a row (a command,
another one that overtakes it, at most one that sets the flags first), and each
budget gives every order of more than that. The duty constants are the code's
(steps of 15, range 100, 40 while turning, 50 while tracing), but for `turns`,
where a step is 60: two presses of `i` reach the full level, and beyond,
where the code needs seven. There two presses of `a` race with the turn that
counts them down; `j` at level 0, the other end of the range, is in `session`.
`DutyFollows` is checked in a session without line tracing and `SteeringUndone`
in one without manual driving: tracing writes the registers without the level a
later turn saves, and restores.

`ImuRecorder` has no bound on readings; its map is small (four rows, two
readings a cell), which is enough for both turning points, and `MaxDrift` bounds
the column. `map_column` has the map's real size.

`BitmapChannel` is bounded by the number of pictures: two are needed to reuse a
bitmap, six let both bitmaps be reused several times in one run, and two pixels
are enough to see a torn picture, three to see it torn in more than one place.

`LaserCar` is bounded by its `Budget` and by `MaxPictures`, after which the
camera keeps the camera thread waiting. `laser_modes` has two pictures: two
directions may be set at once, the same one twice, and one while the car moves
in it or in another. In `laser` one picture is enough for a move that an `s` or a
`q` meets anywhere and for a scan that meets a free. `w` and `x`, two turns to
the same side and the ends of the speed range, which the budgets leave out, are
covered by the theorems, which hold for every budget and any number of
pictures. `laser` has no manual driving: there `s` can be lost as in
`stop_lost`, since the motor threads of hw9 clear their mailboxes in the same
way, and `StopHonoured` and `StopTakesEffect` say so (`NeverManual`).

`LightDim` needs two lights to have one switched while another quits, and three
levels to have one that is neither end. `LightsToggle` is finite as it is.

Deadlock is checked in every run. While a program runs its threads poll, so there
is always a step; the states after its end, where nothing can happen any more,
have the step `Terminated`. In `ImuRecorder` the other threads go on writing
`forward1`.

### Fairness

`FairSpec` of `CarDrive` gives weak fairness to each motor thread, to the key
thread once it has read a key, to the end of the IMU thread and to `main`: the
threads of a process are scheduled by Linux, none of them blocks on a lock, and
a sleep ends. The user is under no obligation to type. The sensor has no
fairness of its own. A thread that waits off the line tests the sensor again and
again: a test that fails changes nothing and is a stuttering step, so the
fairness of the thread also says that the line is seen in the end
(`LeaveOffLine`). No property rests on that: the wait ends on a stop or on `q`,
too. `FairSpec` of `BitmapChannel` gives it to the GUI thread, whose timer the
GUI library fires every 30 ms, and to the join; the program need not draw, nor
the user close the window. `FairSpec` of `LaserCar` is like that of
`CarDrive`, with the camera and the image thread; the camera is not obliged to
deliver a picture (`Grab` has no fairness), but a `grab` that has begun returns.
`FairSpec` of the two light programs gives it to each light's thread and to the
join. `ImuRecorder` needs none.

## Proofs

`tlapm` checks every theorem for every value of the constants, in particular
for every key budget, so for sessions of every length, for any number of
pictures and lights and every size of picture, map and scale of levels. The
assumptions are those named in the modules: the duty constants lie within
`0..PwmRange`, a picture has at least one pixel, a light at least one level, a
cell of the map at least one reading, and the path begins below its top row.

| Theorem | Statement |
|---|---|
| `CarDriveProofs!TypeCorrect` | `Spec => []TypeOK` |
| `CarDriveProofs!CarStoppedAtExit` | `Spec => []StoppedAtExit` |
| `CarDriveProofs!TraceStopHonoured` | `Spec => []StopHonoured` if `m1` is never chosen |
| `CarDriveProofs!CorrectionsUndone` | `Spec => []SteeringUndone` if `m1` is never chosen and the tracing level is below full |
| `CarDriveProofs!TurnsRestoreDuty` | `Spec => []DutyFollows` if `m2` is never chosen |
| `CarDriveProofs!TurnUsesPresses` | `Spec => TurnProgress` |
| `CarDriveProofs!QuitNeverTurnsBack` | `Spec => QuitProgress` |
| `CarDrivePatientProofs!PatientStopHonoured` | `Spec => []StopHonoured` for a patient user |
| `CarDrivePatientProofs!PatientWheelsAgree` | `Spec => []WheelsAgree` for a patient user |
| `CarDrivePatientProofs!PatientReportsAllowed` | `Spec => []ReportsAllowed` for a patient user |
| `CarDrivePatientProofs!PatientStopEndsRecording` | `Spec => []StopEndsRecording` for a patient user |
| `CarDrivePatientProofs!PatientReportsAtRest` | `Spec => []ReportsAtRest` for a patient user |
| `CarDrivePatientProofs!PatientDriveImplemented` | `Spec => ImplementsWheels` for a patient user |
| `ImuRecorderProofs!TypeCorrect` | `Spec => []TypeOK` |
| `ImuRecorderProofs!ReadingIsWhole` | `Spec => []WholeReading` |
| `ImuRecorderProofs!RowStaysOnMap` | `Spec => []RowOnMap` |
| `ImuRecorderProofs!DeltaTIsElapsed` | `DeltaT` is the elapsed time for readings less than a second apart |
| `LaserCarProofs!TypeCorrect` | `Spec => []TypeOK` |
| `LaserCarProofs!CarStoppedAtExit` | `Spec => []StoppedAtExit` |
| `LaserCarProofs!MemoryLiveWhileScanned` | `Spec => []ScansLiveMemory` |
| `LaserCarProofs!SightingsActedOnOnce` | `Spec => []OneMovePerPicture` |
| `LaserCarProofs!TurnsRestoreDuty` | `Spec => []DutyAfterTurns` |
| `LaserCarFollowProofs!SightingsImplemented` | `Spec => ImplementsSightings` |
| `LaserCarFollowProofs!FollowStopHonoured` | `Spec => []StopHonoured` |
| `LaserCarFollowProofs!QuitNeverTurnsBack` | `Spec => QuitProgress` |
| `BitmapChannelProofs!TypeCorrect` | `Spec => []TypeOK` |
| `BitmapChannelProofs!WriterAvoidsReader` | `Spec => []NeverSameBitmap` |
| `BitmapChannelProofs!WindowNeverTorn` | `Spec => []NoTornPicture` |
| `BitmapChannelProofs!ChannelImplemented` | `Spec => ImplementsChannel` |
| `BitmapChannelProofs!WindowNeverGoesBack` | `Spec => NeverOlder` |
| `BitmapChannelProofs!CloseNeverTurnsBack` | `Spec => CloseProgress` |
| `LightDimProofs!TypeCorrect` | `Spec => []TypeOK` |
| `LightDimProofs!LightsHeldDark` | `Spec => []HeldDark` |
| `LightDimProofs!DimmingEnds` | `Spec => DimProgress` |
| `LightsToggleProofs!AlternatesForEver` | `FairSpec => [](Alternating(p) => []Alternating(p))` |

* `TypeOK` of `CarDrive` and of `LaserCar` is not inductive for free: a turn
  counter is decremented from a value read earlier, and stays a natural number
  only because a value about to be decremented is at least 1 although the key
  thread writes the counter in between. `TurnInv` and `MotorInv` add that.
* Both `CarStoppedAtExit` rest on `Joined` being stable: a thread whose counter is
  `exited` has no step left, so nothing writes a pin after `main` has. In
  `LaserCar` an ended motor thread must not owe a register its second store,
  either.
* `TraceStopHonoured` is the positive counterpart of `stop_lost`. In sessions
  without manual driving the only commands are stop and trace. The invariant
  follows an `s` through its way: whichever of the mailbox, the command being
  executed or the pins has it, no step of the other thread or of the key thread
  can take it away, because case 7, unlike the others, does not clear its
  mailbox, and an overtaking `s` clears one that has the same effect.
* `CorrectionsUndone`: a thread that corrects the course owes both wheels the
  tracing level until it has set them back (`Owes`), and between two stores of
  one thread the other may make any of its own. `SteerInv` says that a wheel to
  which nobody owes anything is at 0 or at the tracing level, and at the latter
  if its own thread traces.
* `TurnsRestoreDuty` of `CarDrive`: what a turn will restore is the level of the
  wheel, since a thread that turns does not change it. In `LaserCar` the other
  thread's stores come in between, and the invariant lets a register be at full
  level at any time.
* The patient theorems share one invariant, `PatientInv`. For each motor thread
  it says where it is with the last key (`Taking`, `Executing`, `Finished`, and
  `Resting` before the key is posted), what the key has done to the pins once it
  is executed (`PinInv`), and what the flags are once the thread has tested them
  (`FlagInv`): the first thread that tests after a stop or a reverse leaves no
  `forward1`, after a forward no `stop1`, and no later step of either thread
  brings it back. Between keys all threads have finished, so both wheels agree.
* `PatientDriveImplemented` rests on `PatientInv`, too: a key is read when no
  wheel is behind (`ReadOrder`), writing a mailbox takes a side from behind an
  order that is not posted to behind one that is (`ActOrder`), and of a motor
  thread's steps only `Brake` and `Drive` write pins, both with the last key's
  command (`MotorOrder`). After `q` there is nothing to execute (`Ending`), so
  the pins stay as they are until `main` clears them.
* `TurnUsesPresses` counts four steps a press. The count that matters changes
  hands in the middle of `leftCount = leftCount-1`, from the counter to the value
  that was read; `TurnInv` says that it is not 0 there.
* `QuitNeverTurnsBack` of `CarDrive`: the first step after `q` is a post, and the
  count of steps lies along every case of the switch, each loop in it being one
  that tests `done`. In `LaserCar` case 7 does not test it, so the count begins
  when the key thread has left and the left mailbox says so; a store that a thread
  still owes counts, too.
* `ReadingIsWhole`: `WritesInv` follows the three writes of a mode change, after
  which exactly one flag is true again; `PartsInv` and `TestsInv` say, for a
  reading nobody has disturbed, that each finished part went where the flags
  send it (`Dest`), and that the tests passed so far agree with them.
* `RowStaysOnMap` needs that a path that goes up is below the top row and one
  that goes down above the bottom row (`RowInv`). Nothing like it holds for columns
  (`map_column`).
* `MemoryLiveWhileScanned`: the picture's memory is there before `newPicture` is
  ever set, and freed after `done` only (`MemoryInv`).
* `SightingsActedOnOnce`: every direction that is set and not being acted on
  stands for a sighting of its own (`MovesInv`). Setting one that is set already
  loses a sighting, never makes one.
* `SightingsImplemented` says more with less history: its abstract state is read
  off the flags and the two program counters. The motor thread clears the
  direction it answers, and only that one; the image thread sets one at a time.
* `FollowStopHonoured` is for hw9 what `TraceStopHonoured` is for hw7, with the
  registers: a move that `s` meets in its middle still stores to both, and
  `StandInv` follows these stores to the zeros at the end of the loop.
* The bitmap proofs need why the reader is safe without a lock: while a reader
  is inside the index cannot move, so the writer, whichever bitmap it chose,
  either works on the one the index does not select, or has finished. All
  copied pixels, and all pixels of the bitmap the index selects, belong to one
  picture; the writer's part-drawn bitmap is never that one. `WindowNeverGoesBack`
  needs that the reader's copy and the bitmap it is copied from are not older
  than the window.
* `LightsHeldDark` needs that a light dims up below the top and down above 0 only
  (`LevelInv`). `DimmingEnds` counts the levels that are left, up and down again,
  within each its two periods, and within each period the counts of its waits. `AlternatesForEver` is the run `quit_stuck` for
  all time: no fair scheduling helps.

Model-checked only: the liveness properties (`TurnEnds`, both `StopTakesEffect`,
`OfferedIsShown`, `CloseEnds`, `PauseTakesEffect`, `DimsUpAndDown`, the two
`QuitEnds` that hold), which are out of the prover's reach, and of course the
violations. For `TurnEnds`, `CloseEnds`, the dimming and pausing of lights and
the `QuitEnds` of hw7 the half without scheduling is proved (the `...Progress` theorems);
`OfferedIsShown` and `StopTakesEffect` have no such count, because new pictures and
keys may come at any time.

## Plan

Done: `CarDrive`, `BitmapChannel`, `ImuRecorder`, `LaserCar`, `LightDim` and
`LightsToggle`, each checked, and every safety and action property and every
refinement that holds proved.

Left, in this order: the hw8 car, whose threads are those of hw9 with another
test of the picture; the hw5 car, in which a turn writes the other wheel's
register and `main` does not stop the car; the first programs of hw3 and hw4.

## Not modelled

* Calibration and register traffic of the IMU, the PWM clock and the mapping of
  registers: hardware access by one thread, with nothing to interleave.
* Printing, and the format of the reports and files.
* Ctrl-C, which the code does not handle.
* hw5, hw6 and hw8: earlier versions of programs that are modelled, with the
  same mailboxes, flags and threads. hw1, hw3_1 and hw4_1: a loop per thread
  that shares nothing but `done`.
* Reallocating the display's private copy when the window is resized, and the
  redraw on exposure: both in the GUI thread only.
* The camera library (raspicam with MMAL and VCOS, kept twice in the repository
  and by far most of its source) and the wrapper around it: third-party code,
  of which the car programs use the calls the wrapper makes. Recorded data and
  camera test programs.
