SPECIFICATION Spec
CONSTANT Blank = Blank
PROPERTY WorkIsCompleted
 
PROPERTY Settles
CHECK_DEADLOCK FALSE
