CONSTANTS
  in = in
  out = out
  InputProof <- MCInputProof
  OutputProof <- MCOutputProof
SPECIFICATION Spec
PROPERTIES
  SessionCompletes
  ThreadsEnd
CHECK_DEADLOCK FALSE
