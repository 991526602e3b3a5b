\* The installer's five pages and the desktop's frame on the real screen; two
\* keys at any instruction on a small one.
CONSTANTS
  Scenes <- MCScenes
  Echoes <- MCEchoes
  VGA_MAX_HEIGHT = 200
SPECIFICATION Spec
INVARIANTS TypeOK PageAsLaidOut PageFits RowHeals
