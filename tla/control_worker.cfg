SPECIFICATION Spec
CONSTANTS
    h1 = h1  h2 = h2  w1 = w1  w2 = w2  s1 = s1  s2 = s2
    Handlers = {h1, h2}
    Workers = {w1, w2}
    SeqThreads = {s1}
    Free = Free
    Ops = {"sequence", "loop"}
    LoopSteps <- OpLoop
    SeqLen = 1
    MaxZeros = 0
INVARIANTS WorkingLoopIsActive
