SPECIFICATION FairSpec
CONSTANTS
  Client = Client
  Server = Server
  Data <- MCData
  Ciphertext <- MCCiphertext
  Reset = Reset
  SendBufs = 2
  RecBufs = 2
  AckSize = 1
  SendAckMax = 1
  NAckRetransmit = 1
  MaxClient = 4
  MaxServer = 1
  MaxPackets <- MCMaxPackets
  MaxFaults = 1
  MaxFlying = 2
INVARIANTS TypeOK NothingForgotten NeverClogged NothingUnroutable IInv
PROPERTIES KeepsPromise Drains
