\* Up to four frames in every order, ties included; the vector grows twice.
CONSTANTS
  FrameTimes = {1, 2, 7}
  MaxFrames = 4
  FirstCapacity = 1
  Thousandths <- AskedFor
SPECIFICATION Spec
INVARIANTS WrittenTrue
