\* Three epochs in which two members join, leave and trade two leaves, and all
\* departures of the red vectors.
CONSTANTS
    Member = {m1, m2}
    Leaf = {l1, l2}
    Content = {x, y}
    Blank = Blank
    Departures = {"framing", "derived-key", "sealed-by-relay", "altered",
                  "signature-truncated"}
    MaxEpoch = 3
    MaxGeneration = 1
    MaxSent = 2
SPECIFICATION Spec
INVARIANT ReceiptSound
\* Epochs and messages are bounded, and a refused frame changes nothing.
CHECK_DEADLOCK FALSE
