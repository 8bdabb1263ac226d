SPECIFICATION Spec
CONSTANTS
    W = 65536
    H_START = 0
    H_END = 255
    H_INT = 14
    S_START = 255
    S_END = 60
    S_DOWN = 8
    L_START = 190
    L_END = 100
    L_DOWN = 15
 
PROPERTY DrawReturns
