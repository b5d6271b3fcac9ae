CONSTANTS
  LEN = 6
  Numbers <- MCNumbers
  MaxLen = 7
SPECIFICATION RecorderSpec
INVARIANTS RecordsLast Sorted Found Borders
